---- MODULE Spec2Model ----
(***************************************************************************)
(* A model of elasticdl/python/master/pod_manager.py: the pod state table  *)
(* POD_STATE_FLOWS, PodManager's pod-info cache, its retry queue of worker *)
(* ids, and the three threads that drive it: the thread that calls start() *)
(* (and later stop_relaunch_and_remove_pods), the watch thread that calls  *)
(* _event_cb for every cluster event, and the periodic thread that calls   *)
(* _process_worker.                                                        *)
(***************************************************************************)
EXTENDS Integers, Sequences, FiniteSets, TLC

\* ------------------------------------------------------------------ bounds

\* num_workers, the number of workers start_workers launches.
NumWorkers == 2
\* num_ps, the number of parameter servers start_parameter_servers launches.
NumPs == 1
\* The worker id counter stops here: worker ids are 0..MaxWorkerId.
MaxWorkerId == 2
\* The number of registered PodEventCallback listeners.
NumListeners == 2
\* The cluster answers None to at most this many creation calls.
MaxRejected == 1
\* The start times of running containers are 1..MaxTime.
MaxTime == 2

\* --------------------------------------------------------------- constants

\* Python's None, where a string is expected.
None == "None"

WORKER == "worker"
PS == "ps"
MASTER == "master"

PodStatuses == {"INITIAL", "PENDING", "RUNNING", "SUCCEEDED", "FAILED", "DELETED"}
EventTypes == {"ADDED", "MODIFIED", "DELETED"}
Phases == {"Pending", "Running", "Succeeded", "Failed", None}

\* PodStateFlow(from_status, to_status, event_type, phase, should_relaunch).
PodStateFlow(f, t, e, p, r) ==
    [from_status |-> f, to_status |-> t, event_type |-> e, phase |-> p,
     should_relaunch |-> r]

\* get_pod_state_flow's None, as a record so that it compares with the rows.
NoFlow == PodStateFlow(None, None, None, None, FALSE)

\* A slip in the table: the deletion of a failed pod asks for a relaunch, as
\* the deletion of a running one does.
POD_STATE_FLOWS_FailedDeletedRelaunches ==
    << PodStateFlow("INITIAL", "PENDING", "ADDED", "Pending", FALSE),
       PodStateFlow("INITIAL", "RUNNING", "ADDED", "Running", FALSE),
       PodStateFlow("PENDING", "RUNNING", "MODIFIED", "Running", FALSE),
       PodStateFlow("RUNNING", "SUCCEEDED", "MODIFIED", "Succeeded", FALSE),
       PodStateFlow("RUNNING", "FAILED", "MODIFIED", "Failed", TRUE),
       PodStateFlow("PENDING", "DELETED", "DELETED", None, TRUE),
       PodStateFlow("RUNNING", "DELETED", "DELETED", None, TRUE),
       PodStateFlow("SUCCEEDED", "DELETED", "DELETED", None, FALSE),
       PodStateFlow("FAILED", "DELETED", "DELETED", None, TRUE) >>

\* A slip in the table: a pending pod that starts running asks for a
\* relaunch.
POD_STATE_FLOWS_RunningRelaunches ==
    << PodStateFlow("INITIAL", "PENDING", "ADDED", "Pending", FALSE),
       PodStateFlow("INITIAL", "RUNNING", "ADDED", "Running", FALSE),
       PodStateFlow("PENDING", "RUNNING", "MODIFIED", "Running", TRUE),
       PodStateFlow("RUNNING", "SUCCEEDED", "MODIFIED", "Succeeded", FALSE),
       PodStateFlow("RUNNING", "FAILED", "MODIFIED", "Failed", TRUE),
       PodStateFlow("PENDING", "DELETED", "DELETED", None, TRUE),
       PodStateFlow("RUNNING", "DELETED", "DELETED", None, TRUE),
       PodStateFlow("SUCCEEDED", "DELETED", "DELETED", None, FALSE),
       PodStateFlow("FAILED", "DELETED", "DELETED", None, FALSE) >>

POD_STATE_FLOWS ==
    << PodStateFlow("INITIAL", "PENDING", "ADDED", "Pending", FALSE),
       PodStateFlow("INITIAL", "RUNNING", "ADDED", "Running", FALSE),
       PodStateFlow("PENDING", "RUNNING", "MODIFIED", "Running", FALSE),
       PodStateFlow("RUNNING", "SUCCEEDED", "MODIFIED", "Succeeded", FALSE),
       PodStateFlow("RUNNING", "FAILED", "MODIFIED", "Failed", TRUE),
       PodStateFlow("PENDING", "DELETED", "DELETED", None, TRUE),
       PodStateFlow("RUNNING", "DELETED", "DELETED", None, TRUE),
       PodStateFlow("SUCCEEDED", "DELETED", "DELETED", None, FALSE),
       PodStateFlow("FAILED", "DELETED", "DELETED", None, FALSE) >>

\* One test of get_pod_state_flow's loop.
FlowMatches(row, from_status, event_type, phase) ==
    /\ from_status = row.from_status
    /\ event_type = row.event_type
    /\ (row.phase = None \/ phase = row.phase)

\* The loop of get_pod_state_flow from row i on: the first row that matches.
RECURSIVE FlowFrom(_, _, _, _)
FlowFrom(i, from_status, event_type, phase) ==
    IF i > Len(POD_STATE_FLOWS) THEN NoFlow
    ELSE IF FlowMatches(POD_STATE_FLOWS[i], from_status, event_type, phase)
         THEN POD_STATE_FLOWS[i]
         ELSE FlowFrom(i + 1, from_status, event_type, phase)

\* A slip in the match: the phase is not compared, so the first row for the
\* status and the event type wins.
get_pod_state_flow_any_phase(from_status, event_type, phase) ==
    LET hits == {i \in 1..Len(POD_STATE_FLOWS) :
                    /\ from_status = POD_STATE_FLOWS[i].from_status
                    /\ event_type = POD_STATE_FLOWS[i].event_type}
    IN IF hits = {} THEN NoFlow
       ELSE POD_STATE_FLOWS[CHOOSE i \in hits : \A j \in hits : i <= j]

get_pod_state_flow(from_status, event_type, phase) ==
    FlowFrom(1, from_status, event_type, phase)


\* ------------------------------------------------- priority and kill class

\* The priority specifications the manager is constructed with: a literal, or
\* a fraction num/den written as a float string (den a power of two, so the
\* float product num_workers * fraction is exact).
Literal(v) == [kind |-> "literal", value |-> v, num |-> 0, den |-> 1]
Fraction(n, d) == [kind |-> "float", value |-> None, num |-> n, den |-> d]
PrioritySpecs == {Fraction(1, 2)}

\* A Python float is a binary64: a finite value that is not zero is
\* mant * 2^exp, mant being MantissaBits bits, most significant first, the
\* first of them 1. Zero has no bit.
MantissaBits == 53
Zero == [mant |-> <<>>, exp |-> 0]

\* The bits of a natural number, most significant first, and back.
RECURSIVE BitsOf(_)
BitsOf(c) == IF c = 0 THEN <<>> ELSE BitsOf(c \div 2) \o <<c % 2>>

RECURSIVE ToInt(_)
ToInt(bits) ==
    IF bits = <<>> THEN 0
    ELSE 2 * ToInt(SubSeq(bits, 1, Len(bits) - 1)) + bits[Len(bits)]

RECURSIVE LeadingZeros(_)
LeadingZeros(bits) ==
    IF bits = <<>> \/ bits[1] = 1 THEN 0 ELSE 1 + LeadingZeros(Tail(bits))

Strip(bits) == SubSeq(bits, LeadingZeros(bits) + 1, Len(bits))

AnyOne(bits) == \E i \in 1..Len(bits) : bits[i] = 1

RECURSIVE Increment(_)
Increment(bits) ==
    IF bits = <<>> THEN <<1>>
    ELSE IF bits[Len(bits)] = 0
         THEN SubSeq(bits, 1, Len(bits) - 1) \o <<1>>
         ELSE Increment(SubSeq(bits, 1, Len(bits) - 1)) \o <<0>>

\* The binary64 nearest to bits * 2^exp (plus a non-zero rest below the last
\* bit when sticky), ties to the even mantissa: the rounding of every float
\* operation. bits starts with 1.
Round(bits, exp, sticky) ==
    LET L == Len(bits)
    IN  IF L <= MantissaBits
        THEN [mant |-> bits \o [i \in 1..(MantissaBits - L) |-> 0],
              exp |-> exp - (MantissaBits - L)]
        ELSE LET kept == SubSeq(bits, 1, MantissaBits)
                 rest == SubSeq(bits, MantissaBits + 1, L)
                 up == /\ rest[1] = 1
                       /\ \/ sticky
                          \/ AnyOne(Tail(rest))
                          \/ kept[MantissaBits] = 1
                 raised == IF up THEN Increment(kept) ELSE kept
             IN  [mant |-> SubSeq(raised, 1, MantissaBits),
                  exp |-> exp + (L - MantissaBits)
                              + (Len(raised) - MantissaBits)]

\* The first k bits of r / den after the binary point (r < den), what is left
\* of r after them, and the number of zeros before the first 1.
RECURSIVE Expand(_, _, _)
Expand(r, den, k) ==
    IF k = 0 THEN <<>>
    ELSE LET b == IF 2 * r >= den THEN 1 ELSE 0
         IN  <<b>> \o Expand(2 * r - b * den, den, k - 1)

RECURSIVE Remainder(_, _, _)
Remainder(r, den, k) ==
    IF k = 0 THEN r ELSE Remainder((2 * r) % den, den, k - 1)

RECURSIVE ZerosBefore(_, _)
ZerosBefore(r, den) ==
    IF 2 * r >= den THEN 0 ELSE 1 + ZerosBefore(2 * r, den)

\* float(str_number) for the decimal string that writes num / den: the
\* nearest binary64.
float(num, den) ==
    IF num = 0 THEN Zero
    ELSE LET whole == num \div den
             r == num % den
             k == IF r = 0 THEN 0
                  ELSE (IF whole > 0 THEN 0 ELSE ZerosBefore(r, den))
                       + MantissaBits + 1
         IN  Round(Strip(BitsOf(whole) \o Expand(r, den, k)), 0 - k,
                   Remainder(r, den, k) # 0)

\* bits * n, a carry coming in from the right.
RECURSIVE MulBits(_, _, _)
MulBits(bits, n, carry) ==
    IF carry = 0 /\ bits = <<>> THEN <<>>
    ELSE IF bits = <<>> THEN BitsOf(carry)
    ELSE LET t == bits[Len(bits)] * n + carry
         IN  MulBits(SubSeq(bits, 1, Len(bits) - 1), n, t \div 2)
                 \o <<t % 2>>

\* num_workers * fraction: the int is converted exactly, the product rounded.
Multiply(n, x) ==
    IF n = 0 \/ x = Zero THEN Zero
    ELSE Round(Strip(MulBits(x.mant, n, 0)), x.exp, FALSE)

\* The bits of x before the binary point and those after it; x < 2^31.
WholeBits(x) ==
    IF x = Zero \/ MantissaBits + x.exp <= 0 THEN <<>>
    ELSE SubSeq(x.mant, 1, MantissaBits + x.exp)

PartBits(x) ==
    IF x = Zero THEN <<>>
    ELSE IF MantissaBits + x.exp <= 0 THEN x.mant
         ELSE SubSeq(x.mant, MantissaBits + x.exp + 1, MantissaBits)

\* int(x) in place of math.ceil(x): the part after the point is dropped.
int(x) == ToInt(WholeBits(x))

\* math.ceil(x).
math_ceil(x) == ToInt(WholeBits(x)) + (IF AnyOne(PartBits(x)) THEN 1 ELSE 0)

\* A slip in high_count: the product truncated instead of rounded up.
HighCountTruncated(num_workers, spec) ==
    int(Multiply(num_workers, float(spec.num, spec.den)))

\* high_count = math.ceil(num_workers * fraction).
HighCount(num_workers, spec) ==
    math_ceil(Multiply(num_workers, float(spec.num, spec.den)))

_parse_worker_pod_priority(num_workers, worker_pod_priority) ==
    IF worker_pod_priority.kind = "float"
    THEN [i \in 0..(num_workers - 1) |->
            IF i < HighCount(num_workers, worker_pod_priority)
            THEN "high" ELSE "low"]
    ELSE [i \in 0..(num_workers - 1) |-> worker_pod_priority.value]

\* evt_obj.status.container_statuses as _should_relaunch_killed_pod reads it:
\* whether the list is non-empty, whether its first entry is terminated, and
\* that termination's exit code and reason.
Termination(cs, t, c, r) ==
    [container_statuses |-> cs, terminated |-> t, exit_code |-> c, reason |-> r]
NoContainerStatus == Termination(FALSE, FALSE, 0, None)
NotTerminated == Termination(TRUE, FALSE, 0, None)
Terminations ==
    {NoContainerStatus, NotTerminated,
     Termination(TRUE, TRUE, 137, "Error"),
     Termination(TRUE, TRUE, 137, "OOMKilled"),
     Termination(TRUE, TRUE, 1, "Error")}

\* A slip in the classification: every termination but an OOM kill relaunches.
_should_relaunch_unless_oom(term) ==
    ~(term.container_statuses /\ term.terminated /\ term.reason = "OOMKilled")

\* A slip in the classification: the reason is not looked at.
_should_relaunch_any_kill(term) ==
    /\ term.container_statuses
    /\ term.terminated
    /\ term.exit_code = 137

_should_relaunch_killed_pod(term) ==
    /\ term.container_statuses
    /\ term.terminated
    /\ term.exit_code = 137
    /\ term.reason # "OOMKilled"

\* ------------------------------------------------------------------- state

\* A pod's name fixes its labels: its replica type and replica index.
PodName(pod_type, pod_id) == <<pod_type, pod_id>>
WorkerNames == {PodName(WORKER, i) : i \in 0..MaxWorkerId}
PsNames == {PodName(PS, i) : i \in 0..(NumPs - 1)}

PodInfo(pod_type, pod_id, pod_name, status) ==
    [type |-> pod_type, id |-> pod_id, name |-> pod_name, status |-> status]

VARIABLES
    pod_info_cache,         \* self._pod_info_cache: type -> (name -> PodInfo)
    not_created_worker_id,  \* self._not_created_worker_id
    relaunch_worker,        \* self._relaunch_worker
    worker_pod_priority,    \* self._worker_pod_priority: id -> priority
    next_worker_id,         \* the next value of self._next_worker_id_fn
    lock,                   \* the holder of self._lock, or "free"
    main,                   \* the thread in start(), then the stopping caller
    evt,                    \* the watch thread, in _event_cb
    rec,                    \* the periodic thread, in _process_worker
    pods,                   \* the names of the pods the cluster has created
    created_count,          \* worker id -> its successful create_worker calls
    rejected,               \* the creation calls the cluster answered None to
    seen,                   \* the names of tracked pods in delivered events
    moved,                  \* the names some delivered event matched a row for
    query,                  \* one call of get_pod_state_flow and its result
    lineage,                \* the setup priorities, and worker id -> the
                            \* start_workers id it descends from
    caller                  \* a thread calling the manager's other methods

vars == <<pod_info_cache, not_created_worker_id, relaunch_worker,
          worker_pod_priority, next_worker_id, lock, main, evt, rec, pods,
          created_count, rejected, seen, moved, query, lineage, caller>>

\* What a creation call may answer: a pod (TRUE) or None (FALSE).
CreateAnswers == IF rejected < MaxRejected THEN BOOLEAN ELSE {TRUE}

Event(name, evt_type, phase, term) ==
    [name |-> name, pod_type |-> name[1], pod_id |-> name[2],
     type |-> evt_type, phase |-> phase, term |-> term]
NoEvent == Event(PodName(None, 0), None, None, NoContainerStatus)
NoMain ==
    [pc |-> "start", i |-> 0, n |-> 0, worker_id |-> -1, pod |-> FALSE,
     pod_type |-> None, stopped |-> FALSE]
NoPodInfo == PodInfo(None, 0, PodName(None, 0), None)

\* The watch thread between two events.
EvtIdle ==
    [pc |-> "idle", discard |-> None, event |-> NoEvent, pod_state |-> None,
     flow |-> NoFlow,
     pod_info |-> NoPodInfo, should_relaunch |-> FALSE,
     notes |-> <<>>, new_worker_id |-> -1, calls |-> <<>>]

RecIdle == [pc |-> "idle", worker_id |-> -1, need_process |-> TRUE]

NoQuery ==
    [from_status |-> None, event_type |-> None, phase |-> None,
     done |-> FALSE, result |-> NoFlow]

\* The calling thread before its first call: no method, no argument, no
\* request made to the cluster client.
NoCall ==
    [pc |-> "idle", method |-> None, pod_type |-> None, id |-> -1,
     requests |-> <<>>]

\* PodManager.__init__ and _init_pod_status, for a priority specification.
InitManager(spec) ==
    /\ pod_info_cache = [t \in {PS, WORKER} |-> <<>>]
    /\ not_created_worker_id = <<>>
    /\ relaunch_worker = TRUE
    /\ worker_pod_priority = _parse_worker_pod_priority(NumWorkers, spec)
    /\ next_worker_id = 0
    /\ lock = "free"
    /\ main = NoMain
    /\ evt = EvtIdle
    /\ rec = RecIdle
    /\ pods = {}
    /\ created_count = [i \in 0..MaxWorkerId |-> 0]
    /\ rejected = 0
    /\ seen = {}
    /\ moved = {}
    /\ lineage = [setup |-> _parse_worker_pod_priority(NumWorkers, spec),
                  origin |-> <<>>, relaunched |-> {}]

Init ==
    /\ \E spec \in PrioritySpecs : InitManager(spec)
    /\ query = NoQuery
    /\ caller = NoCall


\* ------------------------------------------------------------ shared steps

\* A slip in the update: the type's dict is replaced by the one entry.
CachePutAlone(cache, pod_info) ==
    [cache EXCEPT ![pod_info.type] =
        [n \in {pod_info.name} |-> pod_info]]

\* self._pod_info_cache[pod_type][pod_name] = pod_info
CachePut(cache, pod_info) ==
    [cache EXCEPT ![pod_info.type] =
        [n \in DOMAIN cache[pod_info.type] \cup {pod_info.name} |->
            IF n = pod_info.name THEN pod_info ELSE cache[pod_info.type][n]]]

\* A slip in the lookup: an entry cached as DELETED is taken for no entry, so
\* an event for it starts from INITIAL again.
CachedStatusDeletedForgotten(pod_type, pod_name) ==
    IF /\ pod_name \in DOMAIN pod_info_cache[pod_type]
       /\ pod_info_cache[pod_type][pod_name].status # "DELETED"
    THEN pod_info_cache[pod_type][pod_name].status
    ELSE "INITIAL"

\* The status _event_cb starts from: the cached one, INITIAL without an entry.
CachedStatus(pod_type, pod_name) ==
    IF pod_name \in DOMAIN pod_info_cache[pod_type]
    THEN pod_info_cache[pod_type][pod_name].status
    ELSE "INITIAL"

\* The worker id takes, in the record of descent, the start_workers id it
\* descends from.
SetOrigin(origin, worker_id, from_id) ==
    [i \in DOMAIN origin \cup {worker_id} |->
        IF i = worker_id THEN from_id ELSE origin[i]]

\* A slip in _start_worker: a failed creation is dropped, not queued.
StartWorkerCallNoQueue(priority, worker_id, ok) ==
    /\ worker_id \in DOMAIN priority
    /\ pods' = IF ok THEN pods \cup {PodName(WORKER, worker_id)} ELSE pods
    /\ created_count' =
         IF ok THEN [created_count EXCEPT ![worker_id] = @ + 1]
         ELSE created_count
    /\ not_created_worker_id' = not_created_worker_id
    /\ rejected' = IF ok THEN rejected ELSE rejected + 1

\* The body of _start_worker under the lock: create_worker is called with the
\* priority of worker_id in self._worker_pod_priority (priority) and answers a
\* pod (ok) or None; a None puts the id on the retry queue.
StartWorkerCall(priority, worker_id, ok) ==
    /\ worker_id \in DOMAIN priority
    /\ pods' = IF ok THEN pods \cup {PodName(WORKER, worker_id)} ELSE pods
    /\ created_count' =
         IF ok THEN [created_count EXCEPT ![worker_id] = @ + 1]
         ELSE created_count
    /\ not_created_worker_id' =
         IF ok THEN not_created_worker_id
         ELSE Append(not_created_worker_id, worker_id)
    /\ rejected' = IF ok THEN rejected ELSE rejected + 1

\* A slip in the id counter: it is read but not advanced.
NextWorkerIdStuck(id) ==
    /\ id = next_worker_id
    /\ next_worker_id <= MaxWorkerId
    /\ next_worker_id' = next_worker_id

\* self._next_worker_id_fn(): itertools.count().__next__, one atomic step.
NextWorkerId(id) ==
    /\ id = next_worker_id
    /\ next_worker_id <= MaxWorkerId
    /\ next_worker_id' = next_worker_id + 1

\* ------------------------------------------------- the thread in start()

\* start(): the watch is started, then the parameter servers or the workers.
MainStart ==
    /\ main.pc = "start"
    /\ main' = [main EXCEPT !.pc = IF NumPs > 0 THEN "start_ps"
                                  ELSE "start_workers"]
    /\ UNCHANGED <<pod_info_cache, not_created_worker_id, relaunch_worker,
                   worker_pod_priority, next_worker_id, lock, evt, rec, pods,
                   created_count, rejected, seen, moved, query, lineage,
                   caller>>

\* _start_ps, one turn of its loop: under the lock, create_ps and, when it
\* answers a pod, create_ps_service.
MainStartPs ==
    /\ main.pc = "start_ps"
    /\ lock = "free"
    /\ \E ok \in CreateAnswers :
        /\ pods' = IF ok THEN pods \cup {PodName(PS, main.i)} ELSE pods
        /\ rejected' = IF ok THEN rejected ELSE rejected + 1
        /\ main' = [main EXCEPT !.pc = "ps_locked", !.pod = ok]
    /\ lock' = "main"
    /\ UNCHANGED <<pod_info_cache, not_created_worker_id, relaunch_worker,
                   worker_pod_priority, next_worker_id, evt, rec,
                   created_count, seen, moved, query, lineage, caller>>

\* A slip in _start_ps: the loop is left whatever create_ps answered.
MainStartPsExitSkips ==
    /\ main.pc = "ps_locked"
    /\ lock' = "free"
    /\ main' = [main EXCEPT !.i = @ + 1, !.pod = FALSE,
                            !.pc = IF main.i + 1 < NumPs THEN "start_ps"
                                   ELSE "start_workers"]
    /\ UNCHANGED <<pod_info_cache, not_created_worker_id, relaunch_worker,
                   worker_pod_priority, next_worker_id, evt, rec, pods,
                   created_count, rejected, seen, moved, query, lineage,
                   caller>>

\* _start_ps leaves the lock: with a pod it returns and start_parameter_servers
\* goes on to the next id (after the last one, start_workers); without one it
\* sleeps and tries the same id again.
MainStartPsExit ==
    /\ main.pc = "ps_locked"
    /\ lock' = "free"
    /\ main' = IF main.pod
               THEN [main EXCEPT !.i = @ + 1, !.pod = FALSE,
                                 !.pc = IF main.i + 1 < NumPs THEN "start_ps"
                                        ELSE "start_workers"]
               ELSE [main EXCEPT !.pc = "start_ps"]
    /\ UNCHANGED <<pod_info_cache, not_created_worker_id, relaunch_worker,
                   worker_pod_priority, next_worker_id, evt, rec, pods,
                   created_count, rejected, seen, moved, query, lineage,
                   caller>>

\* start_workers, one turn of its loop: the next id is drawn.
MainNextWorker ==
    /\ main.pc = "start_workers"
    /\ main.n < NumWorkers
    /\ \E id \in 0..MaxWorkerId :
        /\ NextWorkerId(id)
        /\ main' = [main EXCEPT !.pc = "start_worker", !.worker_id = id]
    /\ UNCHANGED <<pod_info_cache, not_created_worker_id, relaunch_worker,
                   worker_pod_priority, lock, evt, rec, pods, created_count,
                   rejected, seen, moved, query, lineage, caller>>

\* _start_worker called by start_workers.
MainStartWorker ==
    /\ main.pc = "start_worker"
    /\ lock = "free"
    /\ \E ok \in CreateAnswers : StartWorkerCall(worker_pod_priority, main.worker_id, ok)
    /\ main' = [main EXCEPT !.pc = "worker_locked"]
    /\ lock' = "main"
    /\ lineage' = [lineage EXCEPT !.origin = SetOrigin(@, main.worker_id,
                                                       main.worker_id)]
    /\ UNCHANGED <<pod_info_cache, relaunch_worker, worker_pod_priority,
                   next_worker_id, evt, rec, seen, moved, query, caller>>

\* _start_worker called by start_workers for an id that has no entry in
\* self._worker_pod_priority (the dict has the ids 0..num_workers-1 and those
\* of the relaunches): the lookup under the lock raises KeyError, the lock is
\* left, and the exception ends start_workers and start().
MainStartWorkerRaises ==
    /\ main.pc = "start_worker"
    /\ lock = "free"
    /\ main.worker_id \notin DOMAIN worker_pod_priority
    /\ main' = [main EXCEPT !.pc = "raised"]
    /\ UNCHANGED <<pod_info_cache, not_created_worker_id, relaunch_worker,
                   worker_pod_priority, next_worker_id, lock, evt, rec, pods,
                   created_count, rejected, seen, moved, query, lineage,
                   caller>>

\* _start_worker returns to start_workers; after the last worker start() ends.
MainStartWorkerExit ==
    /\ main.pc = "worker_locked"
    /\ lock' = "free"
    /\ main' = [main EXCEPT !.n = @ + 1, !.worker_id = -1,
                            !.pc = IF main.n + 1 < NumWorkers
                                   THEN "start_workers" ELSE "running"]
    /\ UNCHANGED <<pod_info_cache, not_created_worker_id, relaunch_worker,
                   worker_pod_priority, next_worker_id, evt, rec, pods,
                   created_count, rejected, seen, moved, query, lineage,
                   caller>>

\* stop_relaunch_and_remove_pods(pod_type), up to the lock: for the worker
\* type the relaunch flag is cleared, without the lock.
MainStopRelaunch ==
    /\ main.pc = "running"
    /\ \E pod_type \in {WORKER, PS} :
        /\ relaunch_worker' = IF pod_type = WORKER THEN FALSE
                              ELSE relaunch_worker
        /\ main' = [main EXCEPT !.pc = "stop_remove", !.pod_type = pod_type]
    /\ UNCHANGED <<pod_info_cache, not_created_worker_id, worker_pod_priority,
                   next_worker_id, lock, evt, rec, pods, created_count,
                   rejected, seen, moved, query, lineage, caller>>

\* stop_relaunch_and_remove_pods under the lock: delete_pod is requested for
\* every cached pod of the type that is not DELETED.
MainStopRemoveStep ==
    /\ main.pc = "stop_remove"
    /\ lock = "free"
    /\ lock' = "main"
    /\ main' = [main EXCEPT !.pc = "stop_locked"]
    /\ UNCHANGED <<pod_info_cache, not_created_worker_id, relaunch_worker,
                   worker_pod_priority, next_worker_id, evt, rec, pods,
                   created_count, rejected, seen, moved, query, lineage>>

MainStopRemove == MainStopRemoveStep /\ UNCHANGED caller

\* stop_relaunch_and_remove_pods leaves the lock and returns; main.stopped
\* records that a call for the worker type has returned.
MainStopExit ==
    /\ main.pc = "stop_locked"
    /\ lock' = "free"
    /\ main' = [main EXCEPT !.pc = "running", !.pod_type = None,
                            !.stopped = @ \/ main.pod_type = WORKER]
    /\ UNCHANGED <<pod_info_cache, not_created_worker_id, relaunch_worker,
                   worker_pod_priority, next_worker_id, evt, rec, pods,
                   created_count, rejected, seen, moved, query, lineage,
                   caller>>

\* ------------------------------------------------ the watch thread: _event_cb

\* The phases the DELETED events carry.
DeletedPhases == {"Running", "Failed"}

\* The events the watch delivers for a tracked pod. The termination record
\* varies on the MODIFIED events whose phase is Failed; _event_cb reads it on
\* no other branch.
EventsOf(name) ==
    {Event(name, t, p, NoContainerStatus) :
        t \in {"ADDED", "MODIFIED"}, p \in Phases}
    \cup {Event(name, "MODIFIED", "Failed", term) : term \in Terminations}
    \cup {Event(name, "DELETED", p, NoContainerStatus) : p \in DeletedPhases}

\* The callback _event_cb dispatches for a target status; None for PENDING.
CallbackOf(to_status) ==
    CASE to_status = "RUNNING" -> "on_pod_started"
      [] to_status = "SUCCEEDED" -> "on_pod_succeeded"
      [] to_status = "FAILED" -> "on_pod_failed"
      [] to_status = "DELETED" -> "on_pod_deleted"
      [] OTHER -> None

\* _event_cb returns before the lock: the event has no object or no type, is
\* not about a Pod, or is about the master pod.
EventCbDiscard ==
    /\ main.pc # "start"
    /\ evt.pc = "idle"
    /\ \E why \in {"no object", "no type", "not a Pod", MASTER} :
        evt' = [EvtIdle EXCEPT !.pc = "return", !.discard = why]
    /\ UNCHANGED <<pod_info_cache, not_created_worker_id, relaunch_worker,
                   worker_pod_priority, next_worker_id, lock, main, rec, pods,
                   created_count, rejected, seen, moved, query, lineage,
                   caller>>

\* A slip in the locked section: the cache is written before the test on the
\* matched flow, the pod entered with the status found for it.
EventCbIgnoredCaches ==
    /\ main.pc # "start"
    /\ evt.pc = "idle"
    /\ lock = "free"
    /\ \E name \in pods : \E e \in EventsOf(name) :
        LET pod_state == CachedStatus(e.pod_type, name)
        IN /\ get_pod_state_flow(pod_state, e.type, e.phase) = NoFlow
           /\ evt' = [EvtIdle EXCEPT
                        !.pc = "return", !.pod_state = pod_state,
                        !.event = Event(name, None, None, NoContainerStatus)]
           /\ seen' = seen \cup {name}
           /\ pod_info_cache' =
                CachePut(pod_info_cache,
                         PodInfo(e.pod_type, e.pod_id, name, pod_state))
    /\ UNCHANGED <<not_created_worker_id, relaunch_worker,
                   worker_pod_priority, next_worker_id, lock, main, rec, pods,
                   created_count, rejected, moved, query, lineage, caller>>

\* _event_cb under the lock, no row of the table matching: it returns. Of its
\* locals, all dead by then, the pod and the status found for it are kept.
EventCbIgnored ==
    /\ main.pc # "start"
    /\ evt.pc = "idle"
    /\ lock = "free"
    /\ \E name \in pods : \E e \in EventsOf(name) :
        LET pod_state == CachedStatus(e.pod_type, name)
        IN /\ get_pod_state_flow(pod_state, e.type, e.phase) = NoFlow
           /\ evt' = [EvtIdle EXCEPT
                        !.pc = "return", !.pod_state = pod_state,
                        !.event = Event(name, None, None, NoContainerStatus)]
           /\ seen' = seen \cup {name}
    /\ UNCHANGED <<pod_info_cache, not_created_worker_id, relaunch_worker,
                   worker_pod_priority, next_worker_id, lock, main, rec, pods,
                   created_count, rejected, moved, query, lineage, caller>>

\* _event_cb under the lock, a row matching: the cache takes the new PodInfo.
EventCbMatched ==
    /\ main.pc # "start"
    /\ evt.pc = "idle"
    /\ lock = "free"
    /\ \E name \in pods : \E e \in EventsOf(name) :
        LET pod_state == CachedStatus(e.pod_type, name)
            flow == get_pod_state_flow(pod_state, e.type, e.phase)
            pod_info == PodInfo(e.pod_type, e.pod_id, name, flow.to_status)
        IN /\ flow # NoFlow
           /\ pod_info_cache' = CachePut(pod_info_cache, pod_info)
           /\ evt' = [EvtIdle EXCEPT !.pc = "cached", !.event = e,
                                     !.pod_state = pod_state, !.flow = flow,
                                     !.pod_info = pod_info]
           /\ seen' = seen \cup {name}
           /\ moved' = moved \cup {name}
    /\ lock' = "event"
    /\ UNCHANGED <<not_created_worker_id, relaunch_worker,
                   worker_pod_priority, next_worker_id, main, rec, pods,
                   created_count, rejected, query, lineage, caller>>

\* A slip in the eligibility: the pod type is not looked at.
EligibleAnyType(pod_type, flow, relaunch) ==
    flow.should_relaunch /\ relaunch

\* should_relaunch as _event_cb first computes it.
Eligible(pod_type, flow, relaunch) ==
    /\ pod_type = WORKER
    /\ flow.should_relaunch
    /\ relaunch

\* A slip in the dispatch: a transition to PENDING is announced as a start.
DispatchedPendingToo(to_status) ==
    IF to_status = "PENDING" THEN "on_pod_started" ELSE CallbackOf(to_status)

\* The callback the if/elif chain of _event_cb calls on every listener.
Dispatched(to_status) == CallbackOf(to_status)

\* The calls of one dispatch: the callback of the target status on every
\* listener of self._pod_event_callbacks in turn, with the new PodInfo; each
\* call returns.
Notifications(to_status, pod_info) ==
    IF Dispatched(to_status) = None THEN <<>>
    ELSE [k \in 1..NumListeners |->
            [listener |-> k, callback |-> Dispatched(to_status),
             pod_info |-> pod_info]]

\* should_relaunch once the callbacks are done: on the FAILED branch the
\* termination must be a kill that is not an OOM kill.
ShouldRelaunch ==
    IF evt.flow.to_status = "FAILED"
    THEN /\ Eligible(evt.event.pod_type, evt.flow, relaunch_worker)
         /\ _should_relaunch_killed_pod(evt.event.term)
    ELSE Eligible(evt.event.pod_type, evt.flow, relaunch_worker)

\* _event_cb leaves the lock, reads the relaunch flag and dispatches the
\* callbacks; there is no relaunch, and it returns.
EventCbNoRelaunch ==
    /\ evt.pc = "cached"
    /\ ~ShouldRelaunch
    /\ lock' = "free"
    /\ evt' = [evt EXCEPT !.pc = "return",
                          !.notes = Notifications(evt.flow.to_status,
                                                  evt.pod_info)]
    /\ UNCHANGED <<pod_info_cache, not_created_worker_id, relaunch_worker,
                   worker_pod_priority, next_worker_id, main, rec, pods,
                   created_count, rejected, seen, moved, query, lineage,
                   caller>>

\* _event_cb leaves the lock, reads the relaunch flag and dispatches the
\* callbacks; a relaunch is due, and a new id is drawn.
EventCbNewWorkerId ==
    /\ evt.pc = "cached"
    /\ ShouldRelaunch
    /\ lock' = "free"
    /\ \E id \in 0..MaxWorkerId :
        /\ NextWorkerId(id)
        /\ evt' = [evt EXCEPT !.pc = "start_worker", !.new_worker_id = id,
                              !.should_relaunch = TRUE,
                              !.notes = Notifications(evt.flow.to_status,
                                                      evt.pod_info)]
    /\ lineage' = [lineage EXCEPT !.relaunched = @ \cup {evt.event.name}]
    /\ UNCHANGED <<pod_info_cache, not_created_worker_id, relaunch_worker,
                   worker_pod_priority, main, rec, pods, created_count,
                   rejected, seen, moved, query, caller>>

\* A slip in the relaunch: the new id, past the ids the fraction made "high",
\* is given "low".
InheritedPriorityLow(priority, pod_id, new_worker_id) ==
    [i \in DOMAIN priority \cup {new_worker_id} |->
        IF i = new_worker_id THEN "low" ELSE priority[i]]

\* A slip in the relaunch: a new id that has an entry already keeps it.
InheritedPriorityKeepsEntry(priority, pod_id, new_worker_id) ==
    [i \in DOMAIN priority \cup {new_worker_id} |->
        IF i = new_worker_id /\ i \notin DOMAIN priority
        THEN priority[pod_id] ELSE priority[i]]

\* self._worker_pod_priority[new_worker_id] = self._worker_pod_priority[pod_id]
InheritedPriority(priority, pod_id, new_worker_id) ==
    [i \in DOMAIN priority \cup {new_worker_id} |->
        IF i = new_worker_id THEN priority[pod_id] ELSE priority[i]]

\* The relaunch: under the lock the new id takes the priority of the dead
\* worker's id; then _start_worker, under the lock again, calls create_worker
\* with that priority.
EventCbStartWorker ==
    /\ evt.pc = "start_worker"
    /\ lock = "free"
    /\ evt.event.pod_id \in DOMAIN worker_pod_priority
    /\ worker_pod_priority' =
         InheritedPriority(worker_pod_priority, evt.event.pod_id,
                           evt.new_worker_id)
    /\ \E ok \in CreateAnswers :
        StartWorkerCall(worker_pod_priority', evt.new_worker_id, ok)
    /\ evt' = [evt EXCEPT
                 !.pc = "worker_locked",
                 !.calls = Append(@,
                     [worker_id |-> evt.new_worker_id,
                      pod_priority |->
                          worker_pod_priority'[evt.new_worker_id]])]
    /\ lock' = "event"
    /\ lineage' = [lineage EXCEPT !.origin =
                     SetOrigin(@, evt.new_worker_id, @[evt.event.pod_id])]
    /\ UNCHANGED <<pod_info_cache, relaunch_worker, next_worker_id, main, rec,
                   seen, moved, query, caller>>

\* _start_worker leaves the lock and _event_cb returns.
EventCbStartWorkerExit ==
    /\ evt.pc = "worker_locked"
    /\ lock' = "free"
    /\ evt' = [evt EXCEPT !.pc = "return"]
    /\ UNCHANGED <<pod_info_cache, not_created_worker_id, relaunch_worker,
                   worker_pod_priority, next_worker_id, main, rec, pods,
                   created_count, rejected, seen, moved, query, lineage,
                   caller>>

\* _event_cb has returned; the watch thread waits for the next event.
EventCbReturn ==
    /\ evt.pc = "return"
    /\ evt' = EvtIdle
    /\ UNCHANGED <<pod_info_cache, not_created_worker_id, relaunch_worker,
                   worker_pod_priority, next_worker_id, lock, main, rec, pods,
                   created_count, rejected, seen, moved, query, lineage,
                   caller>>

\* -------------------------------------- the periodic thread: _process_worker

\* The loop test of _process_worker, on entry or after a _start_worker.
LoopTest == (rec.pc = "idle" \/ rec.need_process) /\ not_created_worker_id # <<>>

\* The loop test holds: the last queued id is popped, without the lock.
ProcessWorkerPopStep ==
    /\ main.pc # "start"
    /\ rec.pc \in {"idle", "check"}
    /\ LoopTest
    /\ rec' = [rec EXCEPT !.pc = "start_worker", !.need_process = TRUE,
                          !.worker_id =
                              not_created_worker_id[Len(not_created_worker_id)]]
    /\ not_created_worker_id' =
         SubSeq(not_created_worker_id, 1, Len(not_created_worker_id) - 1)
    /\ UNCHANGED <<pod_info_cache, relaunch_worker, worker_pod_priority,
                   next_worker_id, lock, main, evt, pods, created_count,
                   rejected, seen, moved, query, lineage>>

ProcessWorkerPop == ProcessWorkerPopStep /\ UNCHANGED caller

\* The loop test fails: _process_worker returns.
ProcessWorkerEndStep ==
    /\ main.pc # "start"
    /\ rec.pc \in {"idle", "check"}
    /\ ~LoopTest
    /\ rec' = RecIdle
    /\ UNCHANGED <<pod_info_cache, not_created_worker_id, relaunch_worker,
                   worker_pod_priority, next_worker_id, lock, main, evt, pods,
                   created_count, rejected, seen, moved, query, lineage>>

ProcessWorkerEnd == ProcessWorkerEndStep /\ UNCHANGED caller

\* A slip in the loop: need_process stays True whatever _start_worker
\* returned.
NeedProcessAlways(ok) == TRUE

\* need_process = self._start_worker(worker_id): True for a pod, False for
\* None.
NeedProcess(ok) == ok

\* _start_worker called by _process_worker for the popped id, the creation
\* answering ok.
ProcessWorkerStartWorkerStep(ok) ==
    /\ rec.pc = "start_worker"
    /\ lock = "free"
    /\ StartWorkerCall(worker_pod_priority, rec.worker_id, ok)
    /\ rec' = [rec EXCEPT !.pc = "worker_locked",
                          !.need_process = NeedProcess(ok)]
    /\ lock' = "recon"
    /\ UNCHANGED <<pod_info_cache, relaunch_worker, worker_pod_priority,
                   next_worker_id, main, evt, seen, moved, query, lineage>>

ProcessWorkerStartWorker ==
    /\ \E ok \in CreateAnswers : ProcessWorkerStartWorkerStep(ok)
    /\ UNCHANGED caller

\* _start_worker leaves the lock and answers need_process.
ProcessWorkerStartWorkerExit ==
    /\ rec.pc = "worker_locked"
    /\ lock' = "free"
    /\ rec' = [rec EXCEPT !.pc = "check", !.worker_id = -1]
    /\ UNCHANGED <<pod_info_cache, not_created_worker_id, relaunch_worker,
                   worker_pod_priority, next_worker_id, main, evt, pods,
                   created_count, rejected, seen, moved, query, lineage,
                   caller>>

\* ----------------------------------------------------------- specification

Next ==
    \/ MainStart
    \/ MainStartPs
    \/ MainStartPsExit
    \/ MainNextWorker
    \/ MainStartWorker
    \/ MainStartWorkerRaises
    \/ MainStartWorkerExit
    \/ EventCbDiscard
    \/ EventCbIgnored
    \/ EventCbMatched
    \/ EventCbNoRelaunch
    \/ EventCbNewWorkerId
    \/ EventCbStartWorker
    \/ EventCbStartWorkerExit
    \/ EventCbReturn
    \/ ProcessWorkerPop
    \/ ProcessWorkerEnd
    \/ ProcessWorkerStartWorker
    \/ ProcessWorkerStartWorkerExit

Spec == Init /\ [][Next]_vars

\* The same with a caller of stop_relaunch_and_remove_pods once start() is
\* done.
NextStop ==
    \/ Next
    \/ MainStopRelaunch
    \/ MainStopRemove
    \/ MainStopExit

SpecStop == Init /\ [][NextStop]_vars


\* The ids start_workers has still to draw, and the ids the counter has left
\* below its bound.
MainStillDraws ==
    IF main.pc \in {"start", "start_ps", "ps_locked", "start_workers"}
    THEN NumWorkers - main.n
    ELSE IF main.pc \in {"start_worker", "worker_locked"}
         THEN NumWorkers - main.n - 1
         ELSE 0
IdsLeft == MaxWorkerId + 1 - next_worker_id

\* The bound MaxWorkerId on the counter, as a guard on the events: an event
\* that calls for a relaunch comes only while the counter has an id for it
\* beside those start_workers still draws, so that no thread waits for an id
\* the bound withholds.
RelaunchFits ==
    (evt.pc = "cached" /\ ShouldRelaunch) => IdsLeft > MainStillDraws

NextLive ==
    \/ MainStart
    \/ MainStartPs
    \/ MainStartPsExit
    \/ MainNextWorker
    \/ MainStartWorker
    \/ MainStartWorkerRaises
    \/ MainStartWorkerExit
    \/ EventCbDiscard
    \/ EventCbIgnored
    \/ (EventCbMatched /\ RelaunchFits')
    \/ EventCbNoRelaunch
    \/ EventCbNewWorkerId
    \/ EventCbStartWorker
    \/ EventCbStartWorkerExit
    \/ EventCbReturn
    \/ ProcessWorkerPop
    \/ ProcessWorkerEnd
    \/ ProcessWorkerStartWorker
    \/ ProcessWorkerStartWorkerExit

\* Scheduling: a thread that can take its next step takes it (WF); a thread
\* waiting for self._lock gets it, every critical section being finite (SF);
\* the periodic thread keeps calling _process_worker (WF on its loop test).
\* No event is ever owed: the watch thread may stay idle for ever.
Fairness ==
    /\ WF_vars(MainStart)
    /\ SF_vars(MainStartPs)
    /\ WF_vars(MainStartPsExit)
    /\ WF_vars(MainNextWorker)
    /\ SF_vars(MainStartWorker)
    /\ SF_vars(MainStartWorkerRaises)
    /\ WF_vars(MainStartWorkerExit)
    /\ WF_vars(EventCbNoRelaunch)
    /\ WF_vars(EventCbNewWorkerId)
    /\ SF_vars(EventCbStartWorker)
    /\ WF_vars(EventCbStartWorkerExit)
    /\ WF_vars(EventCbReturn)
    /\ WF_vars(ProcessWorkerPop)
    /\ WF_vars(ProcessWorkerEnd)
    /\ SF_vars(ProcessWorkerStartWorker)
    /\ WF_vars(ProcessWorkerStartWorkerExit)

\* start(), the events and the reconciliation ticks under that scheduling,
\* with a cluster that answers None to at most MaxRejected creation calls.
SpecLive == Init /\ [][NextLive]_vars /\ Fairness

\* ------------------------------ the calling thread: the removal of one pod

\* The ids _remove_worker and _remove_parameter_server are called with: those
\* the manager gives out and one it never does.
RemoveIds == 0..(MaxWorkerId + 1)

\* The name of the method and of the cluster client's call, by pod type.
RemoveMethod(pod_type) ==
    IF pod_type = WORKER THEN "_remove_worker" ELSE "_remove_parameter_server"
DeleteCall(pod_type) ==
    IF pod_type = WORKER THEN "delete_worker" ELSE "delete_ps"

\* A slip in the test: the status is not looked at.
DeletableIdsAnyStatus(pod_type) ==
    {pod_info_cache[pod_type][n].id : n \in DOMAIN pod_info_cache[pod_type]}

\* The ids of the cached pods of the type whose status is not DELETED.
DeletableIds(pod_type) ==
    {pod_info_cache[pod_type][n].id :
        n \in {k \in DOMAIN pod_info_cache[pod_type] :
                  pod_info_cache[pod_type][k].status # "DELETED"}}

\* _remove_worker(id) or _remove_parameter_server(id), the id not among the
\* deletable ones: under the lock the test fails, an error is logged and the
\* method returns.
RemoveUnknown ==
    /\ caller.pc = "idle"
    /\ lock = "free"
    /\ \E pod_type \in {WORKER, PS} : \E id \in RemoveIds :
        /\ id \notin DeletableIds(pod_type)
        /\ caller' = [NoCall EXCEPT !.method = RemoveMethod(pod_type),
                                    !.pod_type = pod_type, !.id = id]
    /\ UNCHANGED <<pod_info_cache, not_created_worker_id, relaunch_worker,
                   worker_pod_priority, next_worker_id, lock, main, evt, rec,
                   pods, created_count, rejected, seen, moved, query, lineage>>

\* The same, the id among the deletable ones: the method leaves the lock.
RemoveFound ==
    /\ caller.pc = "idle"
    /\ lock = "free"
    /\ \E pod_type \in {WORKER, PS} : \E id \in RemoveIds :
        /\ id \in DeletableIds(pod_type)
        /\ caller' = [NoCall EXCEPT !.pc = "found",
                                    !.method = RemoveMethod(pod_type),
                                    !.pod_type = pod_type, !.id = id]
    /\ UNCHANGED <<pod_info_cache, not_created_worker_id, relaunch_worker,
                   worker_pod_priority, next_worker_id, lock, main, evt, rec,
                   pods, created_count, rejected, seen, moved, query, lineage>>

\* Out of the lock, delete_worker(id) or delete_ps(id) is called on the
\* cluster client, and the method returns.
RemoveRequest ==
    /\ caller.pc = "found"
    /\ caller' = [caller EXCEPT
                    !.pc = "idle",
                    !.requests = Append(@, [call |-> DeleteCall(caller.pod_type),
                                            id |-> caller.id])]
    /\ UNCHANGED <<pod_info_cache, not_created_worker_id, relaunch_worker,
                   worker_pod_priority, next_worker_id, lock, main, evt, rec,
                   pods, created_count, rejected, seen, moved, query, lineage>>

\* start() and the events, with a thread that removes pods; the cluster
\* creates every pod it is asked for, so that nothing is left to the
\* reconciliation ticks.
NextRemove ==
    \/ MainStart
    \/ (MainStartPs /\ rejected' = rejected)
    \/ MainStartPsExit
    \/ MainNextWorker
    \/ (MainStartWorker /\ rejected' = rejected)
    \/ MainStartWorkerRaises
    \/ MainStartWorkerExit
    \/ EventCbDiscard
    \/ EventCbIgnored
    \/ EventCbMatched
    \/ EventCbNoRelaunch
    \/ EventCbNewWorkerId
    \/ (EventCbStartWorker /\ rejected' = rejected)
    \/ EventCbStartWorkerExit
    \/ EventCbReturn
    \/ RemoveUnknown
    \/ RemoveFound
    \/ RemoveRequest

SpecRemove == Init /\ [][NextRemove]_vars

\* ------------------------------ the calling thread: get_alive_workers

\* The start times the events carry: _get_start_running_time_stamp gives
\* started_at of a running container, 1..MaxTime here, and None otherwise,
\* NoTime here.
NoTime == 0
StartTimes == 0..MaxTime

\* The PodInfo objects of pod_info_cache[WORKER] in the order of the dict,
\* which is the order in which the names first entered it (order), each with
\* its start_time.
CachedWorkers(order, start_time) ==
    [k \in 1..Len(order) |->
        [name |-> order[k],
         status |-> pod_info_cache[WORKER][order[k]].status,
         start_time |-> start_time[order[k]]]]

\* A slip in get_alive_workers: the status is not looked at.
get_alive_workers_any_status(workers) == workers

\* get_alive_workers on the dict's values: the list comprehension keeps,
\* in the dict's order, those whose status is RUNNING.
get_alive_workers(workers) ==
    SelectSeq(workers, LAMBDA pod_info : pod_info.status = "RUNNING")

\* The calling thread of get_alive_workers, with what the dict of workers
\* adds to pod_info_cache: the order of its keys and the start times.
AliveIdle ==
    [pc |-> "idle", method |-> "get_alive_workers", order |-> <<>>,
     start_time |-> <<>>, result |-> <<>>]

\* The manager once start() has returned, every creation having succeeded
\* at once, and before any event is handled.
Started(spec) ==
    /\ pod_info_cache = [t \in {PS, WORKER} |-> <<>>]
    /\ not_created_worker_id = <<>>
    /\ relaunch_worker = TRUE
    /\ worker_pod_priority = _parse_worker_pod_priority(NumWorkers, spec)
    /\ next_worker_id = NumWorkers
    /\ lock = "free"
    /\ main = [NoMain EXCEPT !.pc = "running", !.i = NumPs, !.n = NumWorkers]
    /\ evt = EvtIdle
    /\ rec = RecIdle
    /\ pods = PsNames \cup {PodName(WORKER, i) : i \in 0..(NumWorkers - 1)}
    /\ created_count =
         [i \in 0..MaxWorkerId |-> IF i < NumWorkers THEN 1 ELSE 0]
    /\ rejected = 0
    /\ seen = {}
    /\ moved = {}
    /\ lineage = [setup |-> _parse_worker_pod_priority(NumWorkers, spec),
                  origin |-> [i \in 0..(NumWorkers - 1) |-> i],
                  relaunched |-> {}]

InitAlive ==
    /\ \E spec \in PrioritySpecs : Started(spec)
    /\ query = NoQuery
    /\ caller = AliveIdle

\* The locked section of _event_cb for an event of a worker, as it acts on
\* the dict of workers: with a row matching, the name takes the new PodInfo,
\* with the event's start time, at the place it had in the dict, or at the
\* end if it had none.
AliveEventCb ==
    /\ caller.pc = "idle"
    /\ lock = "free"
    /\ \E name \in {PodName(WORKER, i) : i \in 0..(NumWorkers - 1)} :
       \E e \in EventsOf(name) : \E time \in StartTimes :
        LET pod_state == CachedStatus(WORKER, name)
            flow == get_pod_state_flow(pod_state, e.type, e.phase)
            pod_info == PodInfo(WORKER, e.pod_id, name, flow.to_status)
        IN /\ flow # NoFlow
           /\ (time # NoTime) <=> (e.phase = "Running")
           /\ pod_info_cache' = CachePut(pod_info_cache, pod_info)
           /\ caller' = [caller EXCEPT
                 !.order = IF name \in DOMAIN pod_info_cache[WORKER]
                           THEN @ ELSE Append(@, name),
                 !.start_time =
                     [n \in DOMAIN @ \cup {name} |->
                         IF n = name THEN time ELSE @[n]],
                 !.result = <<>>]
    /\ UNCHANGED <<not_created_worker_id, relaunch_worker,
                   worker_pod_priority, next_worker_id, lock, main, evt, rec,
                   pods, created_count, rejected, seen, moved, query, lineage>>

\* get_alive_workers(), under the lock.
GetAliveWorkers ==
    /\ caller.pc = "idle"
    /\ lock = "free"
    /\ caller' = [caller EXCEPT
                    !.pc = "returned",
                    !.result = get_alive_workers(
                        CachedWorkers(caller.order, caller.start_time))]
    /\ UNCHANGED <<pod_info_cache, not_created_worker_id, relaunch_worker,
                   worker_pod_priority, next_worker_id, lock, main, evt, rec,
                   pods, created_count, rejected, seen, moved, query, lineage>>

\* The caller has its list; the next event or call may come.
GetAliveWorkersDone ==
    /\ caller.pc = "returned"
    /\ caller' = [caller EXCEPT !.pc = "idle"]
    /\ UNCHANGED <<pod_info_cache, not_created_worker_id, relaunch_worker,
                   worker_pod_priority, next_worker_id, lock, main, evt, rec,
                   pods, created_count, rejected, seen, moved, query, lineage>>

NextAlive ==
    \/ AliveEventCb
    \/ GetAliveWorkers
    \/ GetAliveWorkersDone

SpecAlive == InitAlive /\ [][NextAlive]_vars

\* ------------------------------------------- the passes of _process_worker

MaxPassRejected == 4

\* The ids of a set, in increasing order.
RECURSIVE Ascending(_)
Ascending(ids) ==
    IF ids = {} THEN <<>>
    ELSE LET least == CHOOSE i \in ids : \A j \in ids : i <= j
         IN  <<least>> \o Ascending(ids \ {least})

\* The manager once start() has returned, the creations of the workers in
\* failed having been rejected: their ids are in the retry queue, in the
\* order start_workers tried them.
StartedWith(spec, failed) ==
    /\ pod_info_cache = [t \in {PS, WORKER} |-> <<>>]
    /\ not_created_worker_id = Ascending(failed)
    /\ relaunch_worker = TRUE
    /\ worker_pod_priority = _parse_worker_pod_priority(NumWorkers, spec)
    /\ next_worker_id = NumWorkers
    /\ lock = "free"
    /\ main = [NoMain EXCEPT !.pc = "running", !.i = NumPs, !.n = NumWorkers]
    /\ evt = EvtIdle
    /\ rec = RecIdle
    /\ pods = PsNames \cup {PodName(WORKER, i) :
                                i \in (0..(NumWorkers - 1)) \ failed}
    /\ created_count =
         [i \in 0..MaxWorkerId |->
             IF i < NumWorkers /\ i \notin failed THEN 1 ELSE 0]
    /\ rejected = Cardinality(failed)
    /\ seen = {}
    /\ moved = {}
    /\ lineage = [setup |-> _parse_worker_pod_priority(NumWorkers, spec),
                  origin |-> [i \in 0..(NumWorkers - 1) |-> i],
                  relaunched |-> {}]

\* The periodic thread's record of the pass it is in, or of its last: the
\* retry queue when the pass began and the creation calls the pass made.
PassIdle ==
    [pc |-> "idle", method |-> "_process_worker", at_start |-> <<>>,
     attempts |-> <<>>]

InitPass ==
    /\ \E spec \in PrioritySpecs :
       \E failed \in SUBSET (0..(NumWorkers - 1)) : StartedWith(spec, failed)
    /\ query = NoQuery
    /\ caller = PassIdle

\* The events delivered during the passes: a worker pod is added, pending,
\* and is deleted, which relaunches it.
PassEvents ==
    {Event(PodName(WORKER, i), "ADDED", "Pending", NoContainerStatus) :
        i \in 0..MaxWorkerId}
    \cup {Event(PodName(WORKER, i), "DELETED", "Running", NoContainerStatus) :
        i \in 0..MaxWorkerId}

\* What a creation call of the pass may answer.
PassAnswers == IF rejected < MaxPassRejected THEN BOOLEAN ELSE {TRUE}

\* _process_worker enters with the queue as it is, or goes round its loop.
Entered ==
    IF rec.pc = "idle"
    THEN [PassIdle EXCEPT !.pc = "pass", !.at_start = not_created_worker_id]
    ELSE caller

PassPop ==
    /\ ProcessWorkerPopStep
    /\ caller' = Entered

PassStartWorker ==
    \E ok \in PassAnswers :
        /\ ProcessWorkerStartWorkerStep(ok)
        /\ caller' = [caller EXCEPT
                        !.attempts = Append(@, [id |-> rec.worker_id,
                                                ok |-> ok])]

PassEnd ==
    /\ ProcessWorkerEndStep
    /\ caller' = [Entered EXCEPT !.pc = "ended"]

NextPass ==
    \/ PassPop
    \/ PassStartWorker
    \/ ProcessWorkerStartWorkerExit
    \/ PassEnd
    \/ (EventCbMatched /\ evt'.event \in PassEvents)
    \/ EventCbNoRelaunch
    \/ EventCbNewWorkerId
    \/ EventCbStartWorker
    \/ EventCbStartWorkerExit
    \/ EventCbReturn

SpecPass == InitPass /\ [][NextPass]_vars

\* ------------------------------ stop_relaunch_and_remove_pods and its calls

\* The record of the calls stop_relaunch_and_remove_pods makes on the cluster
\* client: each delete_pod with the pod's name and the holder of the lock at
\* the call.
ShutIdle ==
    [pc |-> "idle", method |-> "stop_relaunch_and_remove_pods",
     requests |-> {}]

InitShut ==
    /\ \E spec \in PrioritySpecs :
       \E failed \in SUBSET (0..(NumWorkers - 1)) : StartedWith(spec, failed)
    /\ query = NoQuery
    /\ caller = ShutIdle

\* The cached pods of the type whose status is not DELETED, by name.
NotDeleted(pod_type) ==
    {n \in DOMAIN pod_info_cache[pod_type] :
        pod_info_cache[pod_type][n].status # "DELETED"}

\* The calls of the loop of stop_relaunch_and_remove_pods, made in the with
\* block: the lock is held by the calling thread at each.
DeletePodCalls(pod_type, holder) ==
    {[call |-> "delete_pod", name |-> n, lock |-> holder] :
        n \in NotDeleted(pod_type)}

\* stop_relaunch_and_remove_pods under the lock, its calls recorded.
ShutRemove ==
    /\ MainStopRemoveStep
    /\ caller' = [caller EXCEPT
                    !.requests = @ \cup DeletePodCalls(main.pod_type, lock')]

\* The pods delete_pod was called for.
Requested == {q.name : q \in caller.requests}

\* The events delivered around the stop: a worker pod is added, pending, and
\* a pod is deleted, by the cluster on its own or on a delete_pod.
ShutEvents ==
    {Event(PodName(WORKER, i), "ADDED", "Pending", NoContainerStatus) :
        i \in 0..MaxWorkerId}
    \cup {Event(PodName(WORKER, i), "DELETED", "Running", NoContainerStatus) :
        i \in 0..MaxWorkerId}

\* The cluster honours a delete_pod: the DELETED event of a requested pod is
\* delivered and handled.
RequestedDeletion ==
    /\ EventCbMatched
    /\ evt'.event \in ShutEvents
    /\ evt'.event.type = "DELETED"
    /\ evt'.event.name \in Requested

NextShut ==
    \/ MainStopRelaunch
    \/ ShutRemove
    \/ MainStopExit
    \/ (EventCbMatched /\ evt'.event \in ShutEvents)
    \/ EventCbNoRelaunch
    \/ EventCbNewWorkerId
    \/ EventCbStartWorker
    \/ EventCbStartWorkerExit
    \/ EventCbReturn
    \/ ProcessWorkerPop
    \/ ProcessWorkerEnd
    \/ ProcessWorkerStartWorker
    \/ ProcessWorkerStartWorkerExit

\* The threads go on, a thread waiting for the lock gets it, and the cluster
\* honours every delete_pod; no other event has to come, and
\* stop_relaunch_and_remove_pods need not be called.
FairnessShut ==
    /\ WF_vars(MainStopExit)
    /\ SF_vars(ShutRemove)
    /\ SF_vars(RequestedDeletion)
    /\ WF_vars(EventCbNoRelaunch)
    /\ WF_vars(EventCbNewWorkerId)
    /\ SF_vars(EventCbStartWorker)
    /\ WF_vars(EventCbStartWorkerExit)
    /\ WF_vars(EventCbReturn)
    /\ WF_vars(ProcessWorkerPop)
    /\ WF_vars(ProcessWorkerEnd)
    /\ SF_vars(ProcessWorkerStartWorker)
    /\ WF_vars(ProcessWorkerStartWorkerExit)

SpecShut == InitShut /\ [][NextShut]_vars /\ FairnessShut

\* ------------------------------------- listeners that query the manager

\* The queries a listener may call from its callback; each takes the lock
\* for its body.
Queries ==
    {"get_alive_workers", "get_pod_infos", "all_workers_exited",
     "get_pod_counter"}

\* The callback running on the watch thread: the listener it belongs to and
\* the query it calls.
ListenIdle == [pc |-> "idle", method |-> None, listener |-> 0]

InitListen ==
    /\ \E spec \in PrioritySpecs :
       \E failed \in SUBSET (0..(NumWorkers - 1)) : StartedWith(spec, failed)
    /\ query = NoQuery
    /\ caller = ListenIdle

\* The events delivered to the listeners' manager: a worker pod is added,
\* running, and is deleted.
ListenEvents ==
    {Event(PodName(WORKER, i), "ADDED", "Running", NoContainerStatus) :
        i \in 0..MaxWorkerId}
    \cup {Event(PodName(WORKER, i), "DELETED", "Running", NoContainerStatus) :
        i \in 0..MaxWorkerId}

\* A slip in _event_cb: the callbacks are dispatched in the with block, the
\* watch thread holding the lock.
DispatchLockHeld == "event"

\* The lock when the callbacks are dispatched: the with block is left.
DispatchLock == "free"

\* _event_cb leaves the locked section and reads the relaunch flag; the
\* callbacks of the target status are next.
ListenUnlock ==
    /\ evt.pc = "cached"
    /\ caller.pc = "idle"
    /\ lock' = DispatchLock
    /\ evt' = [evt EXCEPT !.pc = "dispatch",
                          !.should_relaunch = ShouldRelaunch]
    /\ caller' = [ListenIdle EXCEPT !.listener = 1]
    /\ UNCHANGED <<pod_info_cache, not_created_worker_id, relaunch_worker,
                   worker_pod_priority, next_worker_id, main, rec, pods,
                   created_count, rejected, seen, moved, query, lineage>>

\* The callback of the next listener is called, and calls a query of the
\* manager, which waits for the lock.
ListenerCall ==
    /\ evt.pc = "dispatch"
    /\ caller.pc = "idle"
    /\ caller.listener \in 1..NumListeners
    /\ Dispatched(evt.flow.to_status) # None
    /\ \E method \in Queries :
        caller' = [caller EXCEPT !.pc = "waiting", !.method = method]
    /\ evt' = [evt EXCEPT
                 !.notes = Append(@, [listener |-> caller.listener,
                                      callback |->
                                          Dispatched(evt.flow.to_status),
                                      pod_info |-> evt.pod_info])]
    /\ UNCHANGED <<pod_info_cache, not_created_worker_id, relaunch_worker,
                   worker_pod_priority, next_worker_id, lock, main, rec, pods,
                   created_count, rejected, seen, moved, query, lineage>>

\* The query enters its with block.
QueryLocked ==
    /\ caller.pc = "waiting"
    /\ lock = "free"
    /\ lock' = "event"
    /\ caller' = [caller EXCEPT !.pc = "in_query"]
    /\ UNCHANGED <<pod_info_cache, not_created_worker_id, relaunch_worker,
                   worker_pod_priority, next_worker_id, main, evt, rec, pods,
                   created_count, rejected, seen, moved, query, lineage>>

\* The query leaves its with block and returns, and so does the callback.
QueryReturn ==
    /\ caller.pc = "in_query"
    /\ lock' = "free"
    /\ caller' = [ListenIdle EXCEPT !.listener = caller.listener + 1]
    /\ UNCHANGED <<pod_info_cache, not_created_worker_id, relaunch_worker,
                   worker_pod_priority, next_worker_id, main, evt, rec, pods,
                   created_count, rejected, seen, moved, query, lineage>>

\* The callbacks are done, or the target status has none.
Dispatching ==
    /\ evt.pc = "dispatch"
    /\ caller.pc = "idle"
    /\ \/ caller.listener > NumListeners
       \/ Dispatched(evt.flow.to_status) = None

\* No relaunch is due: _event_cb returns.
ListenNoRelaunch ==
    /\ Dispatching
    /\ ~evt.should_relaunch
    /\ evt' = [evt EXCEPT !.pc = "return"]
    /\ caller' = ListenIdle
    /\ UNCHANGED <<pod_info_cache, not_created_worker_id, relaunch_worker,
                   worker_pod_priority, next_worker_id, lock, main, rec, pods,
                   created_count, rejected, seen, moved, query, lineage>>

\* A relaunch is due: a new id is drawn.
ListenNewWorkerId ==
    /\ Dispatching
    /\ evt.should_relaunch
    /\ \E id \in 0..MaxWorkerId :
        /\ NextWorkerId(id)
        /\ evt' = [evt EXCEPT !.pc = "start_worker", !.new_worker_id = id]
    /\ caller' = ListenIdle
    /\ lineage' = [lineage EXCEPT !.relaunched = @ \cup {evt.event.name}]
    /\ UNCHANGED <<pod_info_cache, not_created_worker_id, relaunch_worker,
                   worker_pod_priority, lock, main, rec, pods, created_count,
                   rejected, seen, moved, query>>

\* The watch thread with its listeners, the periodic thread, and a thread
\* that calls stop_relaunch_and_remove_pods.
NextListen ==
    \/ MainStopRelaunch
    \/ MainStopRemove
    \/ MainStopExit
    \/ (EventCbMatched /\ evt'.event \in ListenEvents)
    \/ ListenUnlock
    \/ ListenerCall
    \/ QueryLocked
    \/ QueryReturn
    \/ ListenNoRelaunch
    \/ ListenNewWorkerId
    \/ EventCbStartWorker
    \/ EventCbStartWorkerExit
    \/ EventCbReturn
    \/ ProcessWorkerPop
    \/ ProcessWorkerEnd
    \/ ProcessWorkerStartWorker
    \/ ProcessWorkerStartWorkerExit

SpecListen == InitListen /\ [][NextListen]_vars

\* --------------------------------------- events the handler does not expect

\* A worker pod the manager did not create, left in the cluster by an
\* earlier master: its id has no entry in self._worker_pod_priority.
ForeignWorker == PodName(WORKER, MaxWorkerId + 1)

\* That pod appears in the cluster.
ForeignWorkerAppears ==
    /\ ForeignWorker \notin pods
    /\ pods' = pods \cup {ForeignWorker}
    /\ UNCHANGED <<pod_info_cache, not_created_worker_id, relaunch_worker,
                   worker_pod_priority, next_worker_id, lock, main, evt, rec,
                   created_count, rejected, seen, moved, query, lineage,
                   caller>>

\* _event_cb for a pod whose replica type is not master, worker or ps: under
\* the lock self._pod_info_cache[pod_type] raises KeyError; the lock is left
\* and the exception leaves _event_cb.
EventCbForeignType ==
    /\ main.pc # "start"
    /\ evt.pc = "idle"
    /\ lock = "free"
    /\ evt' = [EvtIdle EXCEPT !.pc = "raised",
                              !.discard = "KeyError: _pod_info_cache"]
    /\ UNCHANGED <<pod_info_cache, not_created_worker_id, relaunch_worker,
                   worker_pod_priority, next_worker_id, lock, main, rec, pods,
                   created_count, rejected, seen, moved, query, lineage,
                   caller>>

\* _event_cb out of the lock, a listener's callback raising: the listeners
\* before it have been called, the exception leaves the list comprehension
\* and _event_cb.
EventCbCallbackRaises ==
    /\ evt.pc = "cached"
    /\ Dispatched(evt.flow.to_status) # None
    /\ lock' = "free"
    /\ \E k \in 1..NumListeners :
        evt' = [evt EXCEPT
                  !.pc = "raised",
                  !.discard = "raised by a listener",
                  !.notes = SubSeq(Notifications(evt.flow.to_status,
                                                 evt.pod_info), 1, k)]
    /\ UNCHANGED <<pod_info_cache, not_created_worker_id, relaunch_worker,
                   worker_pod_priority, next_worker_id, main, rec, pods,
                   created_count, rejected, seen, moved, query, lineage,
                   caller>>

\* The relaunch for a dead worker whose id has no entry in
\* self._worker_pod_priority: under the lock the lookup raises KeyError; the
\* lock is left and the exception leaves _event_cb, the new id drawn and no
\* creation called.
EventCbStartWorkerRaises ==
    /\ evt.pc = "start_worker"
    /\ lock = "free"
    /\ evt.event.pod_id \notin DOMAIN worker_pod_priority
    /\ evt' = [evt EXCEPT !.pc = "raised",
                          !.discard = "KeyError: _worker_pod_priority"]
    /\ UNCHANGED <<pod_info_cache, not_created_worker_id, relaunch_worker,
                   worker_pod_priority, next_worker_id, lock, main, rec, pods,
                   created_count, rejected, seen, moved, query, lineage,
                   caller>>

\* start() and the reconciliation ticks, with the events of the foreign
\* worker, events of other pod types, and listeners that may raise.
NextFaulty ==
    \/ MainStart
    \/ MainStartPs
    \/ MainStartPsExit
    \/ MainNextWorker
    \/ MainStartWorker
    \/ MainStartWorkerRaises
    \/ MainStartWorkerExit
    \/ ForeignWorkerAppears
    \/ EventCbDiscard
    \/ EventCbForeignType
    \/ (EventCbIgnored /\ evt'.event.name = ForeignWorker)
    \/ (EventCbMatched /\ evt'.event.name = ForeignWorker)
    \/ EventCbNoRelaunch
    \/ EventCbCallbackRaises
    \/ EventCbNewWorkerId
    \/ EventCbStartWorkerRaises
    \/ EventCbReturn
    \/ ProcessWorkerPop
    \/ ProcessWorkerEnd
    \/ ProcessWorkerStartWorker
    \/ ProcessWorkerStartWorkerExit

SpecFaulty == Init /\ [][NextFaulty]_vars

\* One call of get_pod_state_flow, on inputs drawn at the start.
InitFlow ==
    /\ \E spec \in PrioritySpecs : InitManager(spec)
    /\ query \in [from_status : PodStatuses, event_type : EventTypes,
                  phase : Phases, done : {FALSE}, result : {NoFlow}]
    /\ caller = NoCall

GetPodStateFlow ==
    /\ ~query.done
    /\ query' = [query EXCEPT
                   !.done = TRUE,
                   !.result = get_pod_state_flow(query.from_status,
                                                 query.event_type,
                                                 query.phase)]
    /\ UNCHANGED <<pod_info_cache, not_created_worker_id, relaunch_worker,
                   worker_pod_priority, next_worker_id, lock, main, evt, rec,
                   pods, created_count, rejected, seen, moved, lineage,
                   caller>>

SpecFlow == InitFlow /\ [][GetPodStateFlow]_vars

\* One call of _parse_worker_pod_priority, on inputs drawn at the start: the
\* strings "0", "0.07", "0.1", "0.25", "0.3", "0.5", "0.7", "0.75", "0.9" and
\* "1.0", and the four literals.
ParsedFractions ==
    {Fraction(0, 1), Fraction(7, 100), Fraction(1, 10), Fraction(1, 4),
     Fraction(3, 10), Fraction(1, 2), Fraction(7, 10), Fraction(3, 4),
     Fraction(9, 10), Fraction(1, 1)}
ParsedLiterals == {Literal(None), Literal(""), Literal("high"), Literal("low")}
ParsedWorkers == {0, 1, 7, 10, 100}

InitPriority ==
    /\ \E spec \in PrioritySpecs : InitManager(spec)
    /\ query \in [num_workers : ParsedWorkers,
                  worker_pod_priority : ParsedFractions \cup ParsedLiterals,
                  done : {FALSE}, result : {<<>>}]
    /\ caller = NoCall

ParseWorkerPodPriority ==
    /\ ~query.done
    /\ query' = [query EXCEPT
                   !.done = TRUE,
                   !.result = _parse_worker_pod_priority(
                                  query.num_workers,
                                  query.worker_pod_priority)]
    /\ UNCHANGED <<pod_info_cache, not_created_worker_id, relaunch_worker,
                   worker_pod_priority, next_worker_id, lock, main, evt, rec,
                   pods, created_count, rejected, seen, moved, lineage,
                   caller>>

SpecPriority == InitPriority /\ [][ParseWorkerPodPriority]_vars

\* ----------------------------------------------------------------- queries

\* get_pod_counter(pod_type): how many cached pods of the type each status has.
get_pod_counter(pod_type) ==
    [status \in PodStatuses |->
        Cardinality({n \in DOMAIN pod_info_cache[pod_type] :
                        pod_info_cache[pod_type][n].status = status})]

\* A slip in the list of final statuses: FAILED is left out.
all_workers_exited_but_failed ==
    \A n \in DOMAIN pod_info_cache[WORKER] :
        pod_info_cache[WORKER][n].status \in {"SUCCEEDED", "DELETED"}

\* The property all_workers_exited.
all_workers_exited ==
    \A n \in DOMAIN pod_info_cache[WORKER] :
        pod_info_cache[WORKER][n].status \in {"SUCCEEDED", "FAILED", "DELETED"}


\* ------------------------------------------------------------------ claims

Rows == {POD_STATE_FLOWS[i] : i \in 1..Len(POD_STATE_FLOWS)}

\* The call asked for row R itself, and for R with another phase.
AsksRow(R) ==
    /\ query.from_status = R.from_status
    /\ query.event_type = R.event_type
    /\ query.phase = R.phase
AsksOtherPhase(R) ==
    /\ R.phase # None
    /\ query.from_status = R.from_status
    /\ query.event_type = R.event_type
    /\ query.phase # R.phase

\* C1 as stated: get_pod_state_flow on a row's own (from_status, event_type,
\* phase) returns the row, and on a row with a phase, asked with any other
\* phase, returns None.
C1_OtherPhaseIsNone ==
    query.done =>
        \A R \in Rows :
            /\ AsksRow(R) => query.result = R
            /\ AsksOtherPhase(R) => query.result = NoFlow

\* C1, amended: get_pod_state_flow on a row's own (from_status, event_type,
\* phase) returns the row; on a row with a phase, asked with another phase p,
\* it never returns that row: it returns the table's row for the same status
\* and event type whose phase is p when there is one, and None otherwise.
C1_RowLookup ==
    query.done =>
        \A R \in Rows :
            /\ AsksRow(R) => query.result = R
            /\ AsksOtherPhase(R) =>
                /\ query.result # R
                /\ IF \E Q \in Rows : AsksRow(Q)
                   THEN query.result \in Rows /\ AsksRow(query.result)
                   ELSE query.result = NoFlow

\* C1's case: INITIAL + ADDED asked with phase Running, another phase than the
\* Pending of the table's first row, answers the second row.
C1_Witness ==
    /\ query.done
    /\ query.from_status = "INITIAL"
    /\ query.event_type = "ADDED"
    /\ query.phase = "Running"
    /\ query.result = POD_STATE_FLOWS[2]

\* _event_cb has returned (the watch thread has not yet taken the next event).
Returned == evt.pc = "return"

\* The event _event_cb handled was MODIFIED with phase Failed and this
\* termination, for a worker cached as RUNNING.
RunningWorkerFailed(term) ==
    /\ evt.event.pod_type = WORKER
    /\ evt.pod_state = "RUNNING"
    /\ evt.event.type = "MODIFIED"
    /\ evt.event.phase = "Failed"
    /\ evt.event.term = term

\* Every listener got this callback once, in turn, with the handler's PodInfo.
AllNotified(callback) ==
    /\ Len(evt.notes) = NumListeners
    /\ \A k \in 1..NumListeners :
        /\ evt.notes[k].listener = k
        /\ evt.notes[k].callback = callback
        /\ evt.notes[k].pod_info = evt.pod_info

\* C2: once a pod is cached as DELETED its cache entry never changes, and an
\* event for it makes _event_cb return with no row matched: no callback, no
\* new id, no creation call, the counter, the pods and the queue untouched.
C2_DeletedIsTerminal ==
    [][\A t \in {PS, WORKER} : \A n \in DOMAIN pod_info_cache[t] :
          pod_info_cache[t][n].status = "DELETED" =>
            /\ n \in DOMAIN pod_info_cache'[t]
            /\ pod_info_cache'[t][n] = pod_info_cache[t][n]
            /\ (evt.pc = "idle" /\ evt'.pc # "idle" /\ evt'.event.name = n) =>
                /\ evt'.pc = "return"
                /\ evt'.flow = NoFlow
                /\ evt'.notes = <<>>
                /\ evt'.calls = <<>>
                /\ evt'.new_worker_id = -1
                /\ next_worker_id' = next_worker_id
                /\ pods' = pods
                /\ not_created_worker_id' = not_created_worker_id]_vars

\* C2's case: _event_cb has handled an event for a pod cached as DELETED.
C2_Witness ==
    /\ Returned
    /\ evt.pod_state = "DELETED"
    /\ evt.event.pod_type = WORKER
    /\ pod_info_cache[WORKER][evt.event.name].status = "DELETED"

\* C3: _event_cb, handling MODIFIED/Failed with exit code 137 and reason Error
\* for a RUNNING worker of priority "high" with relaunch enabled, has made
\* exactly one create_worker call, for the id it drew from the counter, with
\* priority "high", and the failed worker is cached as FAILED.
C3_KilledWorkerRelaunched ==
    ( /\ Returned
      /\ RunningWorkerFailed(Termination(TRUE, TRUE, 137, "Error"))
      /\ worker_pod_priority[evt.event.pod_id] = "high"
      /\ relaunch_worker )
    => /\ Len(evt.calls) = 1
       /\ evt.calls[1].worker_id = evt.new_worker_id
       /\ evt.calls[1].pod_priority = "high"
       /\ evt.new_worker_id \in 0..(next_worker_id - 1)
       /\ evt.new_worker_id # evt.event.pod_id
       /\ worker_pod_priority[evt.new_worker_id] = "high"
       /\ pod_info_cache[WORKER][evt.event.name].status = "FAILED"

\* C3's case: the handler has returned from such an event and the replacement
\* pod exists.
C3_Witness ==
    /\ Returned
    /\ RunningWorkerFailed(Termination(TRUE, TRUE, 137, "Error"))
    /\ worker_pod_priority[evt.event.pod_id] = "high"
    /\ relaunch_worker
    /\ Len(evt.calls) = 1
    /\ PodName(WORKER, evt.new_worker_id) \in pods

\* C4: _event_cb, handling MODIFIED/Failed with exit code 137 and reason
\* OOMKilled for a RUNNING worker, caches the worker as FAILED and calls
\* on_pod_failed on every listener, but draws no id and calls no create_worker.
C4_OomKillNotRelaunched ==
    ( /\ evt.pc # "idle"
      /\ RunningWorkerFailed(Termination(TRUE, TRUE, 137, "OOMKilled")) )
    => /\ pod_info_cache[WORKER][evt.event.name].status = "FAILED"
       /\ evt.pc \in {"cached", "return"}
       /\ Returned => AllNotified("on_pod_failed")
       /\ evt.new_worker_id = -1
       /\ evt.calls = <<>>

\* C4's case: the handler has returned from an OOM kill of a RUNNING worker.
C4_Witness ==
    /\ Returned
    /\ RunningWorkerFailed(Termination(TRUE, TRUE, 137, "OOMKilled"))
    /\ AllNotified("on_pod_failed")

\* The handler has returned from an event that took a worker from RUNNING to
\* FAILED, with relaunch enabled.
WorkerFailedReturned ==
    /\ Returned
    /\ evt.event.pod_type = WORKER
    /\ evt.pod_state = "RUNNING"
    /\ evt.flow.to_status = "FAILED"
    /\ relaunch_worker

OomKill(term) ==
    term.container_statuses /\ term.terminated /\ term.reason = "OOMKilled"

\* C5 as stated: for a RUNNING worker that becomes FAILED with relaunch
\* enabled, a replacement is created for every termination that is not an OOM
\* kill, and only an OOM kill suppresses it.
C5_RelaunchUnlessOom ==
    WorkerFailedReturned => (Len(evt.calls) = 1 <=> ~OomKill(evt.event.term))

\* C5, amended: for a RUNNING worker that becomes FAILED with relaunch enabled,
\* a replacement is created exactly when the event carries a container
\* termination with exit code 137 whose reason is not OOMKilled; it is
\* suppressed for an OOM kill, for any other exit code and for an event with no
\* container termination.
C5_RelaunchOnlyKilled ==
    WorkerFailedReturned =>
        /\ Len(evt.calls) <= 1
        /\ Len(evt.calls) = 1 <=>
            /\ evt.event.term.container_statuses
            /\ evt.event.term.terminated
            /\ evt.event.term.exit_code = 137
            /\ evt.event.term.reason # "OOMKilled"

\* C5's case: the handler has returned from a RUNNING worker's failure with
\* exit code 1, relaunch enabled, and made no creation call.
C5_Witness ==
    /\ WorkerFailedReturned
    /\ evt.event.term = Termination(TRUE, TRUE, 1, "Error")
    /\ evt.calls = <<>>

\* C6: while and after _event_cb handles an event for a parameter server, no
\* id is drawn and no creation is requested: the handler goes from the cache
\* update to its return.
C6_NoRelaunchOfPs ==
    (evt.pc # "idle" /\ evt.event.pod_type = PS) =>
        /\ evt.pc \in {"cached", "return"}
        /\ evt.new_worker_id = -1
        /\ evt.calls = <<>>

\* C6's case: the handler has returned from the kill (137, Error) of a RUNNING
\* parameter server, a row with should_relaunch.
C6_Witness ==
    /\ Returned
    /\ evt.event.pod_type = PS
    /\ evt.pod_state = "RUNNING"
    /\ evt.flow.should_relaunch
    /\ evt.event.term = Termination(TRUE, TRUE, 137, "Error")
    /\ relaunch_worker

\* Where a drawn worker id is: created, queued, or in the hand of a thread
\* about to call create_worker for it.
CreatedIds == {i \in 0..MaxWorkerId : created_count[i] > 0}
QueuedIds ==
    {not_created_worker_id[k] : k \in 1..Len(not_created_worker_id)}
HandIds ==
    {t.id : t \in {h \in {[pc |-> main.pc, id |-> main.worker_id],
                          [pc |-> rec.pc, id |-> rec.worker_id],
                          [pc |-> evt.pc, id |-> evt.new_worker_id]} :
                     h.pc = "start_worker"}}
AllocatedIds == CreatedIds \cup QueuedIds \cup HandIds

\* How many places hold worker id i.
Holders(i) ==
    Cardinality({k \in 1..Len(not_created_worker_id) :
                    not_created_worker_id[k] = i})
    + created_count[i]
    + (IF main.pc = "start_worker" /\ main.worker_id = i THEN 1 ELSE 0)
    + (IF rec.pc = "start_worker" /\ rec.worker_id = i THEN 1 ELSE 0)
    + (IF evt.pc = "start_worker" /\ evt.new_worker_id = i THEN 1 ELSE 0)

\* C7: under every interleaving of start_workers, the relaunches and the
\* retries, an id newly drawn is greater than every id drawn before, the
\* counter never goes back, and no id is held twice: it is created at most
\* once, and is never at once created, queued or in a thread's hand.
C7_WorkerIdsIncreaseNoReuse ==
    [][/\ next_worker_id' >= next_worker_id
       /\ AllocatedIds' \subseteq 0..(next_worker_id' - 1)
       /\ \A i \in AllocatedIds' \ AllocatedIds :
            \A j \in AllocatedIds : j < i
       /\ \A i \in 0..MaxWorkerId : Holders(i)' <= 1]_vars

\* C7's case: start_workers is between its two workers while a relaunch has
\* drawn the id after the first worker's.
C7_Witness ==
    /\ main.pc = "start_worker"
    /\ evt.pc = "start_worker"
    /\ evt.new_worker_id < main.worker_id

RECURSIVE SumOver(_, _)
SumOver(counter, statuses) ==
    IF statuses = {} THEN 0
    ELSE LET x == CHOOSE y \in statuses : TRUE
         IN counter[x] + SumOver(counter, statuses \ {x})

Named(names, pod_type) == {n \in names : n[1] = pod_type}

\* C8 as stated: the counts of get_pod_counter(type) add up to the number of
\* pod names of the type that appeared in delivered events.
C8_CountsAddUpToSeen ==
    \A t \in {PS, WORKER} :
        SumOver(get_pod_counter(t), PodStatuses) = Cardinality(Named(seen, t))

\* C8, amended: the counts of get_pod_counter(type) add up to the number of
\* pod names of the type for which some delivered event matched a row of the
\* table; names whose events were all ignored are not counted.
C8_CountsAddUpToMoved ==
    \A t \in {PS, WORKER} :
        /\ SumOver(get_pod_counter(t), PodStatuses)
             = Cardinality(Named(moved, t))
        /\ Named(moved, t) \subseteq Named(seen, t)

\* C8's case: two workers counted under different statuses and a third one
\* seen in events that were all ignored.
C8_Witness ==
    /\ get_pod_counter(WORKER)["RUNNING"] = 1
    /\ get_pod_counter(WORKER)["DELETED"] = 1
    /\ Cardinality(Named(seen, WORKER)) = 3
    /\ Cardinality(Named(moved, WORKER)) = 2

\* C9: all_workers_exited is false when a cached worker is INITIAL, PENDING or
\* RUNNING, and true when every cached worker is SUCCEEDED, FAILED or DELETED.
C9_AllWorkersExited ==
    /\ (\E n \in DOMAIN pod_info_cache[WORKER] :
            pod_info_cache[WORKER][n].status
                \in {"INITIAL", "PENDING", "RUNNING"})
        => ~all_workers_exited
    /\ (\A n \in DOMAIN pod_info_cache[WORKER] :
            \/ pod_info_cache[WORKER][n].status = "SUCCEEDED"
            \/ pod_info_cache[WORKER][n].status = "FAILED"
            \/ pod_info_cache[WORKER][n].status = "DELETED")
        => all_workers_exited

\* C9's case: three workers cached, one in each final status.
C9_Witness ==
    /\ all_workers_exited
    /\ {pod_info_cache[WORKER][n].status : n \in DOMAIN pod_info_cache[WORKER]}
         = {"SUCCEEDED", "FAILED", "DELETED"}

\* The callback the claim names for a target status.
NamedCallback(to_status) ==
    CASE to_status = "RUNNING" -> "on_pod_started"
      [] to_status = "SUCCEEDED" -> "on_pod_succeeded"
      [] to_status = "FAILED" -> "on_pod_failed"
      [] to_status = "DELETED" -> "on_pod_deleted"
      [] OTHER -> "no callback named"

AllAllocatedCreated ==
    \A i \in 0..(next_worker_id - 1) : created_count[i] >= 1

\* C11: when every creation eventually succeeds and the reconciliation ticks
\* keep coming, every allocated worker id is eventually created and the retry
\* queue eventually empty, for good.
C11_FailedCreationsRecovered ==
    <>[](/\ not_created_worker_id = <<>>
         /\ rec.pc # "start_worker"
         /\ AllAllocatedCreated)

\* What does hold under the same scheduling: every allocated id is eventually
\* created and the queue empty, but for the id start_workers drew when
\* _start_worker raised KeyError on it.
RecoveredButRaisedId ==
    <>[](/\ not_created_worker_id = <<>>
         /\ rec.pc # "start_worker"
         /\ \A i \in 0..(next_worker_id - 1) :
                \/ created_count[i] >= 1
                \/ main.pc = "raised" /\ main.worker_id = i)

\* C11's case: start_workers drew an id past num_workers, a relaunch having
\* taken an id before it, and _start_worker raised on it: the id is neither
\* created nor queued, and no thread holds it.
C11_Witness ==
    /\ main.pc = "raised"
    /\ main.worker_id \in 0..(next_worker_id - 1)
    /\ created_count[main.worker_id] = 0
    /\ main.worker_id \notin AllocatedIds

\* The parameter servers the cluster has created.
CreatedPs == pods \cap PsNames

C13_NoRelaunchAfterStop ==
    [][main.stopped => ~(evt.pc = "start_worker" /\ evt'.pc = "worker_locked")]_vars

\* C13's case: the call has returned, and after it _event_cb, which had read
\* the flag before, has created a replacement worker.
C13_Witness ==
    /\ main.stopped
    /\ ~relaunch_worker
    /\ evt.pc = "worker_locked"
    /\ Len(evt.calls) = 1
    /\ PodName(WORKER, evt.new_worker_id) \in pods

\* C14: the step of _event_cb that creates a replacement calls create_worker
\* with the priority class the dead worker's id has at that moment and gives
\* it to the new id; the priority class of an id a creation was called for
\* never changes; so every such id has the priority class its start_workers
\* ancestor was given at setup.
C14_PriorityInherited ==
    [][/\ (evt.pc = "start_worker" /\ evt'.pc = "worker_locked")
          => /\ worker_pod_priority'[evt.new_worker_id]
                  = worker_pod_priority[evt.event.pod_id]
             /\ evt'.calls[Len(evt'.calls)].pod_priority
                  = worker_pod_priority[evt.event.pod_id]
             /\ evt'.calls[Len(evt'.calls)].worker_id = evt.new_worker_id
       /\ \A i \in DOMAIN lineage.origin :
            worker_pod_priority'[i] = worker_pod_priority[i]
       /\ \A i \in DOMAIN lineage'.origin :
            /\ lineage'.origin[i] \in 0..(NumWorkers - 1)
            /\ worker_pod_priority'[i]
                 = lineage'.setup[lineage'.origin[i]]]_vars

\* C14's case: a chain of two relaunches, the replacement of the replacement
\* of worker 0 created, past the ids that were given a priority at setup.
C14_Witness ==
    /\ evt.pc = "worker_locked"
    /\ evt.new_worker_id = NumWorkers
    /\ evt.event.pod_id # 0
    /\ lineage.origin[evt.event.pod_id] = 0
    /\ lineage.origin[evt.new_worker_id] = 0
    /\ PodName(WORKER, evt.new_worker_id) \in pods

\* C15: _remove_worker(id) and _remove_parameter_server(id) go on to the
\* cluster call exactly when, at their test under the lock, the id is that of
\* a cached pod of the type whose status is not DELETED, and then make the one
\* call delete_worker(id) or delete_ps(id); otherwise they return with no
\* call; in no case do they change the cache.
C15_RemoveOnlyDeletable ==
    [][(caller' # caller) =>
        /\ pod_info_cache' = pod_info_cache
        /\ caller.pc = "idle" =>
            /\ caller'.requests = <<>>
            /\ caller'.method = RemoveMethod(caller'.pod_type)
            /\ caller'.pc = "found" <=>
                 \E n \in DOMAIN pod_info_cache[caller'.pod_type] :
                    /\ pod_info_cache[caller'.pod_type][n].id = caller'.id
                    /\ pod_info_cache[caller'.pod_type][n].status # "DELETED"
            /\ caller'.pc \in {"found", "idle"}
        /\ caller.pc = "found" =>
            /\ caller'.pc = "idle"
            /\ caller'.requests = <<[call |-> DeleteCall(caller.pod_type),
                                     id |-> caller.id]>>]_vars

\* C15's case: _remove_worker has returned, with no call made, for the id of
\* a worker cached as DELETED.
C15_Witness ==
    /\ caller.pc = "idle"
    /\ caller.method = "_remove_worker"
    /\ caller.requests = <<>>
    /\ \E n \in DOMAIN pod_info_cache[WORKER] :
        /\ pod_info_cache[WORKER][n].id = caller.id
        /\ pod_info_cache[WORKER][n].status = "DELETED"

\* The list get_alive_workers returned holds exactly the cached workers whose
\* status is RUNNING, each once.
ExactlyRunning ==
    /\ {caller.result[k].name : k \in 1..Len(caller.result)}
         = {n \in DOMAIN pod_info_cache[WORKER] :
               pod_info_cache[WORKER][n].status = "RUNNING"}
    /\ \A j, k \in 1..Len(caller.result) :
         caller.result[j].name = caller.result[k].name => j = k
    /\ \A k \in 1..Len(caller.result) :
         caller.result[k].status = "RUNNING"

\* The place of a name among the keys of the dict of workers.
PlaceOf(name) == CHOOSE k \in 1..Len(caller.order) : caller.order[k] = name

\* C16 as stated: get_alive_workers returns exactly the cached workers whose
\* status is RUNNING, by ascending start time.
C16_AliveByStartTime ==
    caller.pc = "returned" =>
        /\ ExactlyRunning
        /\ \A j, k \in 1..Len(caller.result) :
             j < k => caller.result[j].start_time
                        <= caller.result[k].start_time

\* C16, amended: get_alive_workers returns exactly the cached workers whose
\* status is RUNNING, in the order in which their names first entered the
\* cache, whatever their start times.
C16_AliveByCacheOrder ==
    caller.pc = "returned" =>
        /\ ExactlyRunning
        /\ \A j, k \in 1..Len(caller.result) :
             j < k => PlaceOf(caller.result[j].name)
                        < PlaceOf(caller.result[k].name)

\* C16's case: two workers are RUNNING, and the one whose events came first
\* started later; get_alive_workers returns it first.
C16_Witness ==
    /\ caller.pc = "returned"
    /\ Len(caller.result) = 2
    /\ caller.result[1].start_time > caller.result[2].start_time
    /\ PlaceOf(caller.result[1].name) < PlaceOf(caller.result[2].name)

\* C17: _event_cb never raises; whatever the event, it returns.
C17_EventCbNeverRaises == evt.pc # "raised"

\* C17's case: the relaunch of a dead worker whose id has no priority entry
\* has raised KeyError, after the new id was drawn.
C17_Witness ==
    /\ evt.pc = "raised"
    /\ evt.discard = "KeyError: _worker_pod_priority"
    /\ evt.event.name = ForeignWorker
    /\ evt.new_worker_id = next_worker_id - 1
    /\ evt.calls = <<>>

\* The other two ways _event_cb raises: an event of another pod type, and a
\* listener whose callback fails.
RaisedOnForeignType ==
    evt.pc = "raised" /\ evt.discard = "KeyError: _pod_info_cache"
RaisedByListener ==
    evt.pc = "raised" /\ evt.discard = "raised by a listener"

\* ceil(f * n) for f = num / den, in exact arithmetic.
CeilOfProduct(n, num, den) == (n * num + den - 1) \div den

\* The fractions and worker numbers C18 names.
NamedFractions ==
    {Fraction(0, 1), Fraction(3, 10), Fraction(1, 2), Fraction(1, 1)}
NamedWorkers == {1, 7, 10}

Parsed(fractions, workers) ==
    /\ query.done
    /\ query.worker_pod_priority \in fractions
    /\ query.num_workers \in workers

HighIds == {i \in DOMAIN query.result : query.result[i] = "high"}

HighBelowExactCeil ==
    LET high_count == CeilOfProduct(query.num_workers,
                                    query.worker_pod_priority.num,
                                    query.worker_pod_priority.den)
    IN  /\ DOMAIN query.result = 0..(query.num_workers - 1)
        /\ \A i \in DOMAIN query.result :
            query.result[i] = (IF i < high_count THEN "high" ELSE "low")
        /\ Cardinality(HighIds) = high_count

\* C18: for f in {0, 0.3, 0.5, 1.0} and n in {1, 7, 10} workers, the workers
\* with id < ceil(f * n) are "high" and the rest "low", so that ceil(f * n)
\* workers are "high".
C18_HighCountIsCeil ==
    Parsed(NamedFractions, NamedWorkers) => HighBelowExactCeil

\* C18's case: "0.3" of 10 workers has been parsed; the float product is 3.0
\* and three workers are "high".
C18_Witness ==
    /\ Parsed({Fraction(3, 10)}, {10})
    /\ HighIds = {0, 1, 2}

\* Away from the inputs C18 names the float product can exceed the exact
\* one: "0.07" of 100 workers gives 7.000000000000001 and eight "high".
FloatAboveExact ==
    /\ Parsed({Fraction(7, 100)}, {100})
    /\ Cardinality(HighIds) = 8
    /\ ~HighBelowExactCeil

\* The ids the counter has given out.
DrawnIds == 0..(next_worker_id - 1)

\* C19: at every point each worker id drawn by start_workers or by a relaunch
\* is created, or in the retry queue, or the id a thread is attempting; a
\* creation call never raises.
C19_NoAllocatedIdLost ==
    /\ DrawnIds \subseteq AllocatedIds
    /\ main.pc # "raised"

\* C19's case: an id drawn by start_workers has no priority entry, a relaunch
\* having drawn an id below it; _start_worker raised, and the id is in no
\* place: not created, not queued, in no thread's hand.
C19_Witness ==
    \E i \in DrawnIds :
        /\ i \notin DOMAIN worker_pod_priority
        /\ Holders(i) = 0
        /\ main.pc = "raised"
        /\ main.worker_id = i
        /\ i >= NumWorkers

\* What does hold: an id is lost only to that exception, a rejected creation
\* queues its id, and the queue holds an id at most once.
LostOnlyToKeyError ==
    /\ \A i \in DrawnIds \ AllocatedIds :
           main.pc = "raised" /\ main.worker_id = i
    /\ \A k, l \in 1..Len(not_created_worker_id) :
           not_created_worker_id[k] = not_created_worker_id[l] => k = l

\* The creation calls of the pass that were rejected, by their place among
\* the calls, and the ids the pass created.
FailedAttempts == {k \in 1..Len(caller.attempts) : ~caller.attempts[k].ok}
PassCreated ==
    {caller.attempts[k].id : k \in (1..Len(caller.attempts)) \ FailedAttempts}
AtStart == {caller.at_start[k] : k \in 1..Len(caller.at_start)}

\* C20: a pass of _process_worker makes at most one rejected creation call,
\* and none after it; the rejected id and the ids the pass has not tried are
\* then in the retry queue; a pass that ends with no call rejected has
\* created every id that was queued when it began.
C20_PassStopsAtFirstFailure ==
    /\ Cardinality(FailedAttempts) <= 1
    /\ FailedAttempts \subseteq {Len(caller.attempts)}
    /\ \A k \in FailedAttempts :
        /\ caller.attempts[k].id \in QueuedIds
        /\ AtStart \ PassCreated \subseteq QueuedIds
    /\ (caller.pc = "ended" /\ FailedAttempts = {}) =>
          \A i \in AtStart : created_count[i] >= 1

\* C20's case: a pass that began with two ids queued has ended, its first
\* creation call answered, its second rejected.
C20_Witness ==
    /\ caller.pc = "ended"
    /\ Len(caller.at_start) = 2
    /\ Len(caller.attempts) = 2
    /\ FailedAttempts = {2}

\* The other case: a pass that began with two ids queued has ended with both
\* created.
PassCreatedAll ==
    /\ caller.pc = "ended"
    /\ Len(caller.at_start) = 2
    /\ FailedAttempts = {}
    /\ PassCreated = AtStart

\* _event_cb goes from the event straight to its return: the event is
\* discarded before the lock, or no row of the table matches it.
IgnoresEvent == evt.pc = "idle" /\ evt'.pc = "return"

\* C21: an event that is not about a Pod, lacks its object or type, is about
\* the master pod, or matches no row of the table changes neither the cache,
\* the retry queue, the id counter nor the priority map, calls no listener
\* and creates no pod; a name not cached stays out of the cache. The return
\* that follows changes nothing either.
C21_IgnoredEventNoEffect ==
    [][/\ IgnoresEvent =>
            /\ UNCHANGED <<pod_info_cache, not_created_worker_id,
                           next_worker_id, worker_pod_priority, pods,
                           created_count, lock>>
            /\ evt'.flow = NoFlow
            /\ evt'.notes = <<>>
            /\ evt'.calls = <<>>
       /\ (evt.pc = "return" /\ evt.flow = NoFlow /\ evt'.pc = "idle") =>
            UNCHANGED <<pod_info_cache, not_created_worker_id,
                        next_worker_id, worker_pod_priority, pods,
                        created_count, lock>>]_vars

\* C21's case: an event for a created pod that has no cache entry matched no
\* row; _event_cb is at its return and the pod has no entry still.
C21_Witness ==
    /\ evt.pc = "return"
    /\ evt.flow = NoFlow
    /\ evt.event.name \in pods
    /\ evt.pod_state = "INITIAL"
    /\ evt.event.name \notin DOMAIN pod_info_cache[evt.event.pod_type]

\* The other case: the event was discarded before the lock.
DiscardedEvent == evt.pc = "return" /\ evt.discard # None

\* C22: every step that changes the pod-info cache or the retry queue is
\* taken by a thread holding the lock: the lock, free before the locked
\* section, is held after the step that enters it and mutates.
C22_MutationsUnderLock ==
    [][(\/ pod_info_cache' # pod_info_cache
        \/ not_created_worker_id' # not_created_worker_id)
       => (lock = "free" /\ lock' # "free")]_vars

\* C22's case: _process_worker has popped an id from the retry queue, holding
\* no lock, while another thread is in a locked section.
C22_Witness ==
    /\ rec.pc = "start_worker"
    /\ rec.worker_id \notin QueuedIds
    /\ lock \in {"main", "event"}

\* What does hold: the cache is written under the lock only, and so is every
\* insertion in the queue; the pop of _process_worker is the one exception.
LockedButThePop ==
    [][/\ pod_info_cache' # pod_info_cache => (lock = "free" /\ lock' = "event")
       /\ Len(not_created_worker_id') > Len(not_created_worker_id)
            => (lock = "free" /\ lock' # "free")
       /\ Len(not_created_worker_id') < Len(not_created_worker_id)
            => (rec.pc \in {"idle", "check"} /\ rec'.pc = "start_worker"
                /\ UNCHANGED lock)]_vars

\* C23: no delete_pod is called on the cluster client while the lock is
\* held; the lock is held across a call only in the creation of a worker or
\* of a parameter server.
C23_NoDeletionUnderLock ==
    \A q \in caller.requests : q.lock = "free"

\* C23's case: stop_relaunch_and_remove_pods has called delete_pod for a
\* cached worker, the calling thread holding the lock.
C23_Witness ==
    \E q \in caller.requests :
        /\ q.call = "delete_pod"
        /\ q.name \in WorkerNames
        /\ q.lock = "main"

\* What does hold: a thread holding the lock is in a creation call or in the
\* loop of stop_relaunch_and_remove_pods.
LockedInCreationOrStop ==
    /\ lock = "main" => main.pc \in {"ps_locked", "worker_locked", "stop_locked"}
    /\ lock = "event" => evt.pc \in {"cached", "worker_locked"}
    /\ lock = "recon" => rec.pc = "worker_locked"

\* _event_cb draws a replacement id for the pod of its event.
DrawsReplacement == evt.pc = "cached" /\ evt'.pc = "start_worker"

\* C24: a worker pod name triggers at most one relaunch: when a replacement
\* id is drawn for the pod of an event, none was drawn for that name before;
\* the name is left FAILED or DELETED, and no later event brings it back.
C24_OneRelaunchPerName ==
    [][/\ DrawsReplacement =>
            /\ evt.event.name \notin lineage.relaunched
            /\ evt.event.name \in lineage'.relaunched
       /\ \A n \in lineage.relaunched :
            /\ n \in lineage'.relaunched
            /\ CachedStatus(WORKER, n)' \in {"FAILED", "DELETED"}]_vars

\* C24's case: worker 0, relaunched when it went from RUNNING to FAILED, has
\* since had its DELETED event handled, and no replacement id was drawn for
\* it.
C24_Witness ==
    /\ PodName(WORKER, 0) \in lineage.relaunched
    /\ evt.pc = "return"
    /\ evt.event.name = PodName(WORKER, 0)
    /\ evt.flow.from_status = "FAILED"
    /\ evt.flow.to_status = "DELETED"
    /\ evt.new_worker_id = -1

\* The worker ids whose pod is cached in a final status, and the drawn ids
\* that are not: created with or without an event yet, queued, or on the way
\* to their creation call.
ExitedIds ==
    {pod_info_cache[WORKER][n].id :
        n \in {k \in DOMAIN pod_info_cache[WORKER] :
                  pod_info_cache[WORKER][k].status
                      \in {"SUCCEEDED", "FAILED", "DELETED"}}}
LiveIds == DrawnIds \ ExitedIds

HolderCanStep ==
    /\ lock = "event" =>
         ENABLED (ListenUnlock \/ QueryReturn \/ EventCbStartWorkerExit)
    /\ lock = "recon" => ENABLED ProcessWorkerStartWorkerExit
    /\ lock = "main" => ENABLED (MainStopRemove \/ MainStopExit)

\* C26: the callbacks are dispatched with the lock released, no thread waits
\* for the lock while it holds it itself, and the holder of the lock can
\* always go on to release it; so a listener whose callback calls a query of
\* the manager does not deadlock, and no interleaving of the watch thread,
\* the periodic thread and a calling thread does.
C26_NoDeadlock ==
    /\ (evt.pc = "dispatch" /\ caller.pc # "in_query") => lock # "event"
    /\ (caller.pc = "waiting" \/ evt.pc = "start_worker") => lock # "event"
    /\ rec.pc = "start_worker" => lock # "recon"
    /\ main.pc = "stop_remove" => lock # "main"
    /\ HolderCanStep

\* A listener's callback is inside get_alive_workers, holding the lock, while
\* the periodic thread and stop_relaunch_and_remove_pods wait for it.
C26_Witness ==
    /\ evt.pc = "dispatch"
    /\ caller.pc = "in_query"
    /\ caller.method = "get_alive_workers"
    /\ lock = "event"
    /\ rec.pc = "start_worker"
    /\ main.pc = "stop_remove"

\* Every worker pod ever created is cached DELETED, no id waits in the retry
\* queue and no thread is about to call create_worker.
WorkersShutDown ==
    /\ \A i \in CreatedIds :
        CachedStatus(WORKER, PodName(WORKER, i)) = "DELETED"
    /\ QueuedIds = {}
    /\ HandIds = {}

CachedAtStopDeleted ==
    <>[](main.stopped =>
            \A n \in Requested : CachedStatus(WORKER, n) = "DELETED")

====
